---- MODULE Spec2Model ----
(***************************************************************************)
(* A model of the recyclone wiki scraper (src/scraper.py, src/main.py,     *)
(* src/generator.py).                                                      *)
(*                                                                         *)
(* The state machines of this module:                                      *)
(*   SpecSave     WikiScraper.save_to_json on a modelled file system       *)
(*   SpecRetry    the retry_with_backoff wrapper around a fallible call    *)
(*   Spec         one scrape run (scrape_all_categories or scrape_loot)    *)
(*                with its rate limiter, retries, failure lists, metadata  *)
(*   SpecRuns     several such runs on one WikiScraper                     *)
(*   SpecMain     main() with --scrape, interrupts included                *)
(*   SpecJson     save_to_json followed by HTMLGenerator.load_data         *)
(*   SpecLinks    link discovery on one listing page                       *)
(*   SpecExtract  the section extractors on one item page                  *)
(*   SpecParse    _parse_material_text on one text                         *)
(*   SpecGlyph    the extraction paths on one text with or without a       *)
(*                multiplication glyph                                     *)
(*   SpecLootItem one Loot item from its page to the display               *)
(* Each specification moves its own group of variables and leaves the      *)
(* other groups at their initial values.                                   *)
(***************************************************************************)
EXTENDS Integers, Sequences, FiniteSets, TLC

(***************************************************************************)
(* Bounds of the model.                                                    *)
(***************************************************************************)
\* largest max_retries handed to retry_with_backoff in SpecRetry
MaxRetriesBound == 3
\* longest backoff_delays list handed to retry_with_backoff in SpecRetry
MaxDelays == 2
\* number of entries of WikiScraper.CATEGORIES that a run enumerates
NumCategories == 2
\* largest number of hyperlinks on a listing page
MaxLinks == 2
\* largest rate_limit (seconds) a WikiScraper is constructed with
MaxRateLimit == 2
\* longest time (seconds) one HTTP request takes
MaxReqTime == 1
\* items of one category in a catalog that is written and read back
MaxJsonItems == 2
\* elements of an item page after its first heading
MaxNodes == 2
\* child elements of a container of an item page
MaxKids == 2
\* longest text handed to _parse_material_text in SpecParse
MaxTextLen == 4
\* sections of an item page in SpecLootItem
MaxSections == 2
\* runs made on one WikiScraper in SpecRuns
MaxRuns == 2

Min(a, b) == IF a < b THEN a ELSE b

(***************************************************************************)
(* State.                                                                  *)
(***************************************************************************)
VARIABLES
    \* ---- save_to_json and the file system it writes to
    s_pc,            \* position inside save_to_json
    s_data,          \* the serialised catalog to be written
    s_error,         \* the exception that reached the caller
    temp_bound,      \* the local temp_filepath has been assigned
    fs_dir,          \* os.path.exists(directory)
    fs_dest,         \* content of filepath, or NoFile
    fs_tmp,          \* content of filepath + '.tmp', or NoFile
    fs_dest0,        \* history: content of filepath when the call began
    cleanup_refused, \* history: the cleanup's os.remove was refused
    \* ---- retry_with_backoff
    max_retries,     \* the decorator's max_retries
    backoff_delays,  \* the decorator's backoff_delays
    r_pc,            \* position of the wrapper: call, returned, raised
    r_attempt,       \* the loop variable attempt
    r_slept,         \* the time.sleep calls made so far, in order
    r_result,        \* what reached the caller of the wrapper
    r_outcomes,      \* history: outcome of every invocation of func, in order
    \* ---- a scrape run
    pc,                \* position of the run
    mode,              \* catalog (scrape_all_categories) or loot (scrape_loot)
    rate_limit,        \* self.rate_limit
    since_last,        \* time.time() - self.last_request_time, saturating
    failed_categories, \* self.failed_categories
    failed_items,      \* self.failed_items
    cat_idx,           \* position of the loop over CATEGORIES
    item_links,        \* item_links of the category / item infos of the Loot page
    item_idx,          \* position of the loop over item_links
    attempt,           \* loop variable of the retry wrapper in progress
    items,             \* items of the category / all_items of scrape_loot
    all_data,          \* all_data['categories']
    total_items,       \* total_items
    result,            \* the dict the run returned
    \* ---- history of the requests of the run
    since_dispatch,    \* time since the last session.get, saturating
    last_gap,          \* time between the last two session.get calls
    n_dispatch,        \* session.get calls so far, counted up to 2
    last_wait,         \* time slept by the last _rate_limit_wait
    gets,              \* session.get calls of the request in progress
    failure_gets,      \* session.get calls made for the last failure recorded
    listing_ok,        \* listings whose request succeeded
    listing_requested, \* listings requested
    discovered,        \* every link discovered, in order
    item_ok,           \* positions in discovered whose item request succeeded
    item_requested,    \* positions in discovered whose item page was requested
    \* ---- main() of main.py, run with --scrape
    m_pc,              \* position of main: scrape, generate, exit_1
    save_calls,        \* history: calls of save_to_json made by main
    persisted,         \* the data file: << >>, or <<catalog>> once written
    interrupted_at,    \* history: where a KeyboardInterrupt was raised
    \* ---- the catalog file written by save_to_json and read by load_data
    j_pc,              \* dump, load, loaded
    j_data,            \* the dict given to save_to_json
    j_file,            \* the JSON document in the file
    j_loaded,          \* what HTMLGenerator.load_data returned
    \* ---- link discovery on one listing page
    l_pc,              \* page, done
    l_page,            \* the listing page
    l_strategy,        \* catalog (_scrape_category_with_retry) or loot
    l_out,             \* the candidates discovered, in order
    \* ---- extraction of the Materials of one item page
    x_pc,              \* page, returned
    x_doc,             \* the parsed item page
    x_extractor,       \* catalog, recycling or salvaging
    x_heading,         \* position in document order of the heading used, or 0
    x_out,             \* the Materials returned
    \* ---- one text handed to the parsers of Materials
    p_pc,              \* text, parsed
    p_text,            \* the text
    p_path,            \* the code path that parsed it
    p_out,             \* the Materials it gave
    \* ---- one Loot item from its page to the display
    i_pc,              \* page, item, shown
    i_doc,             \* the parsed item page
    i_recycling,       \* history: recycling_materials of _scrape_loot_item
    i_salvaging,       \* history: salvaging_materials of _scrape_loot_item
    i_materials,       \* Item.materials
    i_shown,           \* the recycling and salvaging lists of buildItems
    \* ---- successive runs on one WikiScraper
    run_no             \* runs made on the scraper before the present one

saveVars == <<s_pc, s_data, s_error, temp_bound, fs_dir, fs_dest, fs_tmp,
              fs_dest0, cleanup_refused>>

retryVars == <<max_retries, backoff_delays, r_pc, r_attempt, r_slept, r_result,
               r_outcomes>>

progVars == <<pc, mode, rate_limit, since_last, failed_categories, failed_items,
              cat_idx, item_links, item_idx, attempt, items, all_data,
              total_items, result>>

histVars == <<since_dispatch, last_gap, n_dispatch, last_wait, gets,
              failure_gets, listing_ok, listing_requested, discovered, item_ok,
              item_requested>>

mainVars == <<m_pc, save_calls, persisted, interrupted_at>>

jsonVars == <<j_pc, j_data, j_file, j_loaded>>

linkVars == <<l_pc, l_page, l_strategy, l_out>>

extractVars == <<x_pc, x_doc, x_extractor, x_heading, x_out>>

parseVars == <<p_pc, p_text, p_path, p_out>>

runsVars == <<run_no>>

itemVars == <<i_pc, i_doc, i_recycling, i_salvaging, i_materials, i_shown>>

vars == <<saveVars, retryVars, progVars, histVars, mainVars, jsonVars,
          linkVars, extractVars, parseVars, runsVars, itemVars>>

\* the variables each machine leaves alone
saveOthers == <<retryVars, progVars, histVars, mainVars, jsonVars, linkVars,
                extractVars, parseVars, runsVars, itemVars>>
retryOthers == <<saveVars, progVars, histVars, mainVars, jsonVars, linkVars,
                 extractVars, parseVars, runsVars, itemVars>>
runOthers == <<saveVars, retryVars, mainVars, jsonVars, linkVars,
               extractVars, parseVars, runsVars, itemVars>>
mainOthers == <<saveVars, retryVars, jsonVars, linkVars, extractVars,
                parseVars, runsVars, itemVars>>
jsonOthers == <<saveVars, retryVars, progVars, histVars, mainVars, linkVars,
                extractVars, parseVars, runsVars, itemVars>>
linkOthers == <<saveVars, retryVars, progVars, histVars, mainVars, jsonVars,
                extractVars, parseVars, runsVars, itemVars>>
extractOthers == <<saveVars, retryVars, progVars, histVars, mainVars,
                   jsonVars, linkVars, parseVars, runsVars, itemVars>>
parseOthers == <<saveVars, retryVars, progVars, histVars, mainVars,
                 jsonVars, linkVars, extractVars, runsVars, itemVars>>
itemOthers == <<saveVars, retryVars, progVars, histVars, mainVars,
                jsonVars, linkVars, extractVars, parseVars, runsVars>>

(***************************************************************************)
(* The value of each group of variables while its machine is not running.  *)
(***************************************************************************)
NoFile == "<absent>"

SaveIdle ==
    /\ s_pc = "idle" /\ s_data = NoFile /\ s_error = "none"
    /\ temp_bound = FALSE /\ fs_dir = FALSE /\ fs_dest = NoFile
    /\ fs_tmp = NoFile /\ fs_dest0 = NoFile /\ cleanup_refused = FALSE

NoResult == [kind |-> "none", call |-> 0]

RetryIdle ==
    /\ max_retries = 3
    /\ backoff_delays = <<1, 2, 4>>
    /\ r_pc = "idle" /\ r_attempt = 0 /\ r_slept = <<>>
    /\ r_result = NoResult /\ r_outcomes = <<>>

RunIdle ==
    /\ pc = "idle" /\ mode = "none" /\ rate_limit = 1 /\ since_last = 1
    /\ failed_categories = << >> /\ failed_items = << >> /\ cat_idx = 0
    /\ item_links = << >> /\ item_idx = 0 /\ attempt = 0 /\ items = << >>
    /\ all_data = << >> /\ total_items = 0
    /\ result = [categories |-> << >>, metadata |-> "none"]
    /\ since_dispatch = 1 /\ last_gap = 1 /\ n_dispatch = 0 /\ last_wait = 0
    /\ gets = 0 /\ failure_gets = 0 /\ listing_ok = {} /\ listing_requested = {}
    /\ discovered = << >> /\ item_ok = {} /\ item_requested = {}

MainIdle ==
    /\ m_pc = "idle" /\ save_calls = 0 /\ persisted = << >>
    /\ interrupted_at = "none"

JsonIdle ==
    /\ j_pc = "idle" /\ j_data = "none" /\ j_file = "none" /\ j_loaded = "none"

LinksIdle ==
    /\ l_pc = "idle" /\ l_page = "none" /\ l_strategy = "none" /\ l_out = << >>

ExtractIdle ==
    /\ x_pc = "idle" /\ x_doc = << >> /\ x_extractor = "none" /\ x_heading = 0
    /\ x_out = << >>

ParseIdle ==
    /\ p_pc = "idle" /\ p_text = << >> /\ p_path = "none" /\ p_out = << >>

RunsIdle == run_no = 0

NoLists == [recycling |-> << >>, salvaging |-> << >>]

ItemIdle ==
    /\ i_pc = "idle" /\ i_doc = << >> /\ i_recycling = << >>
    /\ i_salvaging = << >> /\ i_materials = << >> /\ i_shown = NoLists

(***************************************************************************)
(* retry_with_backoff(max_retries, backoff_delays): the wrapper around a    *)
(* fallible func.  An invocation of func either returns or raises an       *)
(* Exception; the wrapper's loop is `for attempt in range(max_retries+1)`. *)
(***************************************************************************)
DelayValues == {1, 2}

SeqsUpTo(S, n) == UNION {[1..k -> S] : k \in 0..n}

\* `if attempt < max_retries` in the except clause
WrapperMayRetryOffByOne(att, n) == att < n - 1
WrapperMayRetry(att, n) == att < n

\* `backoff_delays[attempt] if attempt < len(backoff_delays) else
\*  backoff_delays[-1]` raises IndexError on an empty list
WrapperHasDelay(delays) == Len(delays) > 0

WrapperDelayWrapsAround(att, delays) ==
    IF att < Len(delays) THEN delays[att + 1] ELSE delays[1]
WrapperDelay(att, delays) ==
    IF att < Len(delays) THEN delays[att + 1] ELSE delays[Len(delays)]

\* the exception raised by the k-th invocation of func, as the except
\* clause binds it (`except Exception as e`)
FuncFailure(k) == [kind |-> "exception", call |-> k]

InitRetry ==
    /\ SaveIdle
    /\ RunIdle
    /\ MainIdle
    /\ JsonIdle
    /\ LinksIdle
    /\ ExtractIdle
    /\ ParseIdle
    /\ RunsIdle
    /\ ItemIdle
    /\ max_retries \in 0..MaxRetriesBound
    /\ backoff_delays \in SeqsUpTo(DelayValues, MaxDelays)
    /\ r_pc = "call"
    /\ r_attempt = 0
    /\ r_slept = <<>>
    /\ r_result = NoResult
    /\ r_outcomes = <<>>

\* func returns: the wrapper returns that value
RetryCallReturns ==
    /\ UNCHANGED retryOthers
    /\ r_pc = "call"
    /\ r_outcomes' = Append(r_outcomes, "ok")
    /\ r_result' = [kind |-> "value", call |-> Len(r_outcomes')]
    /\ r_pc' = "returned"
    /\ UNCHANGED <<max_retries, backoff_delays, r_attempt, r_slept>>

\* func raises and attempts remain: sleep, next iteration
RetryCallFailsSleeps ==
    /\ UNCHANGED retryOthers
    /\ r_pc = "call"
    /\ WrapperMayRetry(r_attempt, max_retries)
    /\ WrapperHasDelay(backoff_delays)
    /\ r_outcomes' = Append(r_outcomes, "fail")
    /\ r_slept' = Append(r_slept, WrapperDelay(r_attempt, backoff_delays))
    /\ r_attempt' = r_attempt + 1
    /\ UNCHANGED <<max_retries, backoff_delays, r_pc, r_result>>

\* func raises, attempts remain, and computing the delay raises IndexError
RetryCallFailsNoDelay ==
    /\ UNCHANGED retryOthers
    /\ r_pc = "call"
    /\ WrapperMayRetry(r_attempt, max_retries)
    /\ ~WrapperHasDelay(backoff_delays)
    /\ r_outcomes' = Append(r_outcomes, "fail")
    /\ r_result' = [kind |-> "IndexError", call |-> Len(r_outcomes')]
    /\ r_pc' = "raised"
    /\ UNCHANGED <<max_retries, backoff_delays, r_attempt, r_slept>>

\* func raises on the last attempt: bare `raise` of that exception
RetryCallFailsRaises ==
    /\ UNCHANGED retryOthers
    /\ r_pc = "call"
    /\ ~WrapperMayRetry(r_attempt, max_retries)
    /\ r_outcomes' = Append(r_outcomes, "fail")
    /\ r_result' = FuncFailure(Len(r_outcomes'))
    /\ r_pc' = "raised"
    /\ UNCHANGED <<max_retries, backoff_delays, r_attempt, r_slept>>

NextRetry ==
    \/ RetryCallReturns
    \/ RetryCallFailsSleeps
    \/ RetryCallFailsNoDelay
    \/ RetryCallFailsRaises

SpecRetry == InitRetry /\ [][NextRetry]_vars

(***************************************************************************)
(* save_to_json: write-temp-then-rename on a file system whose calls may   *)
(* fail or be cut short by a crash of the process.                         *)
(***************************************************************************)
Partial == "<partial>"
Contents == {"catalog-1", "catalog-2"}

\* the exceptions a file-system call raises
FsErrors == {"PermissionError", "OSError"}

\* positions of save_to_json at which the process is inside the call
SaveSteps == {"makedirs", "open", "dump", "remove", "rename"}

InitSave ==
    /\ RetryIdle
    /\ RunIdle
    /\ MainIdle
    /\ JsonIdle
    /\ LinksIdle
    /\ ExtractIdle
    /\ ParseIdle
    /\ RunsIdle
    /\ ItemIdle
    /\ s_pc = "makedirs"
    /\ s_data \in Contents
    /\ s_error = "none"
    /\ temp_bound = FALSE
    /\ fs_dir \in BOOLEAN
    /\ fs_dest \in (IF fs_dir THEN Contents \cup {NoFile} ELSE {NoFile})
    /\ fs_tmp = NoFile
    /\ fs_dest0 = fs_dest
    /\ cleanup_refused = FALSE

\* The except clauses of save_to_json, entered with exception err.
\*   except PermissionError: log, raise                       (no cleanup)
\*   except Exception: if os.path.exists(temp_filepath):
\*                         try: os.remove(temp_filepath) except: pass
\*                     raise
\* With temp_filepath unassigned the test itself raises UnboundLocalError.
\* removed says whether the cleanup's os.remove succeeds.
SaveHandlerTmp(err, bound, removed) ==
    IF err = "PermissionError" THEN fs_tmp
    ELSE IF ~bound THEN fs_tmp
    ELSE IF fs_tmp = NoFile THEN NoFile
    ELSE IF removed THEN NoFile ELSE fs_tmp

SaveHandlerError(err, bound) ==
    IF err = "PermissionError" THEN err
    ELSE IF ~bound THEN "UnboundLocalError"
    ELSE err

\* bound: temp_filepath is assigned when the exception is raised
SaveHandler(err, bound) ==
    \E removed \in BOOLEAN :
        /\ fs_tmp' = SaveHandlerTmp(err, bound, removed)
        /\ s_error' = SaveHandlerError(err, bound)
        /\ cleanup_refused' =
              (cleanup_refused
                 \/ (err # "PermissionError" /\ bound /\ fs_tmp # NoFile /\ ~removed))
        /\ s_pc' = "raised"

\* directory = os.path.dirname(filepath); makedirs when it is absent
SaveMakedirsOk ==
    /\ UNCHANGED saveOthers
    /\ s_pc = "makedirs"
    /\ fs_dir' = TRUE
    /\ s_pc' = "open"
    /\ UNCHANGED <<s_data, s_error, temp_bound, fs_dest, fs_tmp, fs_dest0,
                   cleanup_refused>>

SaveMakedirsFail ==
    /\ UNCHANGED saveOthers
    /\ s_pc = "makedirs"
    /\ ~fs_dir
    /\ \E err \in FsErrors : SaveHandler(err, FALSE)
    /\ UNCHANGED <<s_data, temp_bound, fs_dir, fs_dest, fs_dest0>>

\* temp_filepath = filepath + '.tmp'; open(temp_filepath, 'w')
SaveOpenOk ==
    /\ UNCHANGED saveOthers
    /\ s_pc = "open"
    /\ temp_bound' = TRUE
    /\ fs_tmp' = Partial
    /\ s_pc' = "dump"
    /\ UNCHANGED <<s_data, s_error, fs_dir, fs_dest, fs_dest0, cleanup_refused>>

SaveOpenFail ==
    /\ UNCHANGED saveOthers
    /\ s_pc = "open"
    /\ temp_bound' = TRUE
    /\ \E err \in FsErrors : SaveHandler(err, TRUE)
    /\ UNCHANGED <<s_data, fs_dir, fs_dest, fs_dest0>>

\* json.dump(data, f, ...) and the close of the with block
SaveDumpOk ==
    /\ UNCHANGED saveOthers
    /\ s_pc = "dump"
    /\ fs_tmp' = s_data
    /\ s_pc' = "remove"
    /\ UNCHANGED <<s_data, s_error, temp_bound, fs_dir, fs_dest, fs_dest0,
                   cleanup_refused>>

SaveDumpFail ==
    /\ UNCHANGED saveOthers
    /\ s_pc = "dump"
    /\ SaveHandler("OSError", TRUE)
    /\ UNCHANGED <<s_data, temp_bound, fs_dir, fs_dest, fs_dest0>>

\* if os.path.exists(filepath): os.remove(filepath)
SaveRemoveOk ==
    /\ UNCHANGED saveOthers
    /\ s_pc = "remove"
    /\ fs_dest' = NoFile
    /\ s_pc' = "rename"
    /\ UNCHANGED <<s_data, s_error, temp_bound, fs_dir, fs_tmp, fs_dest0,
                   cleanup_refused>>

SaveRemoveFail ==
    /\ UNCHANGED saveOthers
    /\ s_pc = "remove"
    /\ fs_dest # NoFile
    /\ \E err \in FsErrors : SaveHandler(err, TRUE)
    /\ UNCHANGED <<s_data, temp_bound, fs_dir, fs_dest, fs_dest0>>

\* os.rename(temp_filepath, filepath)
SaveRenameOk ==
    /\ UNCHANGED saveOthers
    /\ s_pc = "rename"
    /\ fs_dest' = fs_tmp
    /\ fs_tmp' = NoFile
    /\ s_pc' = "returned"
    /\ UNCHANGED <<s_data, s_error, temp_bound, fs_dir, fs_dest0,
                   cleanup_refused>>

SaveRenameFail ==
    /\ UNCHANGED saveOthers
    /\ s_pc = "rename"
    /\ \E err \in FsErrors : SaveHandler(err, TRUE)
    /\ UNCHANGED <<s_data, temp_bound, fs_dir, fs_dest, fs_dest0>>

\* the process is killed between two file-system calls of save_to_json
SaveCrash ==
    /\ UNCHANGED saveOthers
    /\ s_pc \in SaveSteps
    /\ s_pc' = "crashed"
    /\ UNCHANGED <<s_data, s_error, temp_bound, fs_dir, fs_dest, fs_tmp,
                   fs_dest0, cleanup_refused>>

NextSave ==
    \/ SaveMakedirsOk
    \/ SaveMakedirsFail
    \/ SaveOpenOk
    \/ SaveOpenFail
    \/ SaveDumpOk
    \/ SaveDumpFail
    \/ SaveRemoveOk
    \/ SaveRemoveFail
    \/ SaveRenameOk
    \/ SaveRenameFail
    \/ SaveCrash

SpecSave == InitSave /\ [][NextSave]_vars

(***************************************************************************)
(* One scrape run of a WikiScraper.                                        *)
(*                                                                         *)
(* Time.  The rate limiter only compares time.time() - last_request_time   *)
(* with rate_limit, so the model keeps that difference, since_last, and    *)
(* lets it saturate at rate_limit.  last_request_time starts at 0, hence   *)
(* since_last starts saturated.  time.time() is taken to be monotonic and  *)
(* time.sleep to sleep for the time asked.                                 *)
(*                                                                         *)
(* The wiki.  A listing page is a sequence of hyperlinks (href, visible    *)
(* text), inside the first table of the page or not.  An item page is      *)
(* given by the Materials its sections hold.                               *)
(***************************************************************************)
base_url == "https://arcraiders.wiki"

\* WikiScraper.CATEGORIES in enumeration order (dicts keep insertion order)
AllCategories ==
    << [name |-> "Weapons",   url |-> "https://arcraiders.wiki/wiki/Weapons"],
       [name |-> "Augments",  url |-> "https://arcraiders.wiki/wiki/Augments"],
       [name |-> "Shields",   url |-> "https://arcraiders.wiki/wiki/Shields"],
       [name |-> "Healing",   url |-> "https://arcraiders.wiki/wiki/Healing"],
       [name |-> "Quick Use", url |-> "https://arcraiders.wiki/wiki/Quick_Use"],
       [name |-> "Grenades",  url |-> "https://arcraiders.wiki/wiki/Grenades"],
       [name |-> "Traps",     url |-> "https://arcraiders.wiki/wiki/Traps"] >>

\* the entries a run of the model enumerates
CATEGORIES == SubSeq(AllCategories, 1, NumCategories)

CategoryNames == {CATEGORIES[i].name : i \in 1..Len(CATEGORIES)}

\* category_url.replace(self.base_url, '')
CategoryPath(url) ==
    CASE url = "https://arcraiders.wiki/wiki/Weapons" -> "/wiki/Weapons"
      [] url = "https://arcraiders.wiki/wiki/Augments" -> "/wiki/Augments"
      [] url = "https://arcraiders.wiki/wiki/Shields" -> "/wiki/Shields"
      [] url = "https://arcraiders.wiki/wiki/Healing" -> "/wiki/Healing"
      [] url = "https://arcraiders.wiki/wiki/Quick_Use" -> "/wiki/Quick_Use"
      [] url = "https://arcraiders.wiki/wiki/Grenades" -> "/wiki/Grenades"
      [] url = "https://arcraiders.wiki/wiki/Traps" -> "/wiki/Traps"
      [] OTHER -> url

\* the hrefs and visible texts of the hyperlinks of the modelled wiki
Hrefs == {"/wiki/A", "/wiki/B"}
Texts == {"", "Widget"}
Anchors == [href : Hrefs, text : Texts]

\* href.startswith('/wiki/'), ':' in href, '#' in href, href.startswith('/')
StartsWithWiki(href) ==
    href \in {"/wiki/A", "/wiki/B", "/wiki/File:A.png", "/wiki/A#Recycling",
              "/wiki/Weapons"}
HasColon(href) == href \in {"/wiki/File:A.png", "https://example.org/"}
HasHash(href) == href \in {"/wiki/A#Recycling"}
StartsWithSlash(href) ==
    href \in {"/wiki/A", "/wiki/B", "/wiki/File:A.png", "/wiki/A#Recycling",
              "/wiki/Weapons"}

\* self.base_url + href if href.startswith('/') else href
FullUrl(href) == IF StartsWithSlash(href) THEN base_url \o href ELSE href

LootUrl == base_url \o "/wiki/Loot"

\* the listing pages of the modelled wiki
CategoryPages == SeqsUpTo(Anchors, MaxLinks)
LootPages == [table : BOOLEAN, anchors : SeqsUpTo(Anchors, MaxLinks)]

\* the Materials extract_recycling_data finds on the item page at url
PageMaterials(url) ==
    IF url = "https://arcraiders.wiki/wiki/B"
    THEN << [name |-> "Steel", quantity |-> 5] >>
    ELSE << >>

\* the Materials _extract_section_materials finds on the item page at url,
\* with the recycling keywords and with the salvaging keywords
PageRecycling(url) == PageMaterials(url)

PageSalvaging(url) ==
    IF url = "https://arcraiders.wiki/wiki/B"
    THEN << [name |-> "Scrap", quantity |-> 1] >>
    ELSE << >>

\* str(e) of the exception of a failed request
RequestError == "HTTPError"

(***************************************************************************)
(* _rate_limit_wait                                                        *)
(***************************************************************************)
\* the time slept: rate_limit - elapsed when elapsed < rate_limit
RateLimitSleepShort(elapsed, limit) ==
    IF elapsed < limit THEN limit - elapsed - 1 ELSE 0
RateLimitSleep(elapsed, limit) ==
    IF elapsed < limit THEN limit - elapsed ELSE 0

(***************************************************************************)
(* Link discovery                                                          *)
(***************************************************************************)
\* the loop of _scrape_category_with_retry over content_div.find_all('a')
RECURSIVE CategoryLinks(_, _, _, _)
CategoryLinks(anchors, category, seen_urls, found) ==
    IF anchors = << >> THEN found
    ELSE
      LET link == Head(anchors)
          href == link.href
          full_url == FullUrl(href)
          rest == Tail(anchors)
      IN  IF ~StartsWithWiki(href) \/ HasColon(href) \/ HasHash(href)
          THEN CategoryLinks(rest, category, seen_urls, found)
          ELSE IF href = CategoryPath(category.url)
          THEN CategoryLinks(rest, category, seen_urls, found)
          ELSE IF full_url \in seen_urls
          THEN CategoryLinks(rest, category, seen_urls, found)
          ELSE IF link.text # ""
          THEN CategoryLinks(rest, category, seen_urls \cup {full_url},
                   Append(found, [name |-> link.text, url |-> full_url,
                                       category |-> category.name]))
          ELSE CategoryLinks(rest, category, seen_urls \cup {full_url},
                             found)

\* scrape_loot, table branch: the first-column links of the data rows
RECURSIVE LootTableCandidates(_)
LootTableCandidates(anchors) ==
    IF anchors = << >> THEN << >>
    ELSE IF ~StartsWithWiki(Head(anchors).href)
         THEN LootTableCandidates(Tail(anchors))
         ELSE <<Head(anchors)>> \o LootTableCandidates(Tail(anchors))

\* scrape_loot, fallback branch: the scan of content_div.find_all('a')
RECURSIVE LootScanCandidates(_, _)
LootScanCandidates(anchors, seen) ==
    IF anchors = << >> THEN << >>
    ELSE
      LET href == Head(anchors).href
      IN  IF ~StartsWithWiki(href) \/ HasColon(href) \/ HasHash(href)
          THEN LootScanCandidates(Tail(anchors), seen)
          ELSE IF href \in seen
          THEN LootScanCandidates(Tail(anchors), seen)
          ELSE <<Head(anchors)>>
                 \o LootScanCandidates(Tail(anchors), seen \cup {href})

LootCandidates(page) ==
    IF page.table THEN LootTableCandidates(page.anchors)
    ELSE LootScanCandidates(page.anchors, {})

\* item_info of a candidate link in scrape_loot
LootItemInfo(link) ==
    LET full_url == FullUrl(link.href)
    IN  [name |-> IF link.text # "" THEN link.text ELSE full_url,
         category |-> "Loot",
         url |-> full_url]

LootItemInfos(links) == [i \in 1..Len(links) |-> LootItemInfo(links[i])]

(***************************************************************************)
(* Items, failure records, the catalog                                     *)
(***************************************************************************)
\* Item(...).to_dict()
ItemDict(item_info, materials) ==
    [name |-> item_info.name, category |-> item_info.category,
     url |-> item_info.url, materials |-> materials]

\* {'name': ..., 'url': ..., 'error': str(e)}
FailureRecord(name, url) == [name |-> name, url |-> url, error |-> RequestError]

\* the materials list _scrape_loot_item composes
TagSalvage(m) == [name |-> "(Salvage) " \o m.name, quantity |-> m.quantity]

LootMaterials(url) ==
    PageRecycling(url)
      \o [i \in 1..Len(PageSalvaging(url)) |-> TagSalvage(PageSalvaging(url)[i])]

\* all_data['categories'][category_name] = ...
PutCategory(cats, name, its) ==
    [n \in DOMAIN cats \cup {name} |-> IF n = name THEN its ELSE cats[n]]

\* the metadata dict (scraped_at and elapsed_seconds, both clock readings,
\* are left out)
Metadata(total, count, fc, fi) ==
    [version |-> "1.0", total_items |-> total, categories_count |-> count,
     failed_categories |-> Len(fc), failed_items |-> Len(fi)]

NoCatalog == [categories |-> << >>, metadata |-> "none"]

(***************************************************************************)
(* The run.                                                                *)
(***************************************************************************)
\* self.failed_categories.append(...) in scrape_category
CategoryFailedDropped(fc, category) == fc
CategoryFailed(fc, category) ==
    Append(fc, FailureRecord(category.name, category.url))

\* self.failed_items.append(...) in scrape_item_page and scrape_loot
ItemFailedOverwrites(fi, item_info) ==
    << FailureRecord(item_info.name, item_info.url) >>
ItemFailed(fi, item_info) ==
    Append(fi, FailureRecord(item_info.name, item_info.url))

\* total_items += 1
CountItemStuck(total) == total
CountItem(total) == total + 1

\* WikiScraper.__init__, before a run is started
InitRun ==
    /\ pc = "start"
    /\ mode = "none"
    /\ rate_limit \in 1..MaxRateLimit
    /\ since_last = rate_limit
    /\ failed_categories = << >>
    /\ failed_items = << >>
    /\ cat_idx = 0
    /\ item_links = << >>
    /\ item_idx = 0
    /\ attempt = 0
    /\ items = << >>
    /\ all_data = << >>
    /\ total_items = 0
    /\ result = NoCatalog
    /\ since_dispatch = rate_limit
    /\ last_gap = rate_limit
    /\ n_dispatch = 0
    /\ last_wait = 0
    /\ gets = 0
    /\ failure_gets = 0
    /\ listing_ok = {}
    /\ listing_requested = {}
    /\ discovered = << >>
    /\ item_ok = {}
    /\ item_requested = {}

Init ==
    SaveIdle /\ RetryIdle /\ InitRun /\ MainIdle /\ JsonIdle /\ LinksIdle
      /\ ExtractIdle /\ ParseIdle /\ RunsIdle /\ ItemIdle

\* self._rate_limit_wait() and the session.get that follows it; the request
\* takes d seconds and the caller then sleeps backoff seconds
Dispatch(backoff) ==
    LET slept == RateLimitSleep(since_last, rate_limit)
    IN  /\ last_wait' = slept
        /\ last_gap' = Min(rate_limit, since_dispatch + slept)
        /\ n_dispatch' = Min(2, n_dispatch + 1)
        /\ \E d \in 0..MaxReqTime :
              /\ since_last' = Min(rate_limit, d + backoff)
              /\ since_dispatch' = Min(rate_limit, d + backoff)

\* index in discovered of the link item_links[item_idx]
GlobalIdx == Len(discovered) - Len(item_links) + item_idx

\* the end of the loop body of scrape_all_categories for CATEGORIES[cat_idx],
\* with its items and the failure lists as they are now; after the last
\* category the metadata is added and all_data returned
CloseCategory(its, total, fc, fi) ==
    /\ all_data' = PutCategory(all_data, CATEGORIES[cat_idx].name, its)
    /\ total_items' = total
    /\ items' = << >>
    /\ item_links' = << >>
    /\ item_idx' = 0
    /\ IF cat_idx < Len(CATEGORIES)
       THEN /\ cat_idx' = cat_idx + 1
            /\ pc' = "category"
            /\ result' = result
       ELSE /\ cat_idx' = cat_idx
            /\ pc' = "done"
            /\ result' = [categories |-> all_data',
                          metadata |-> Metadata(total, Len(CATEGORIES), fc, fi)]

\* items.append(item); total_items += 1; next item_info or end of the loop
AfterItem(its, total, fc, fi) ==
    IF item_idx < Len(item_links)
    THEN /\ pc' = "item"
         /\ item_idx' = item_idx + 1
         /\ items' = its
         /\ total_items' = total
         /\ UNCHANGED <<all_data, cat_idx, item_links, result>>
    ELSE CloseCategory(its, total, fc, fi)

\* scrape_all_categories up to the first scrape_category call
StartCatalog ==
    /\ pc = "start"
    /\ mode' = "catalog"
    /\ failed_categories' = << >>
    /\ failed_items' = << >>
    /\ all_data' = << >>
    /\ total_items' = 0
    /\ cat_idx' = 1
    /\ pc' = "category"
    /\ UNCHANGED <<rate_limit, since_last, item_links, item_idx, attempt, items,
                   result>>
    /\ UNCHANGED histVars
    /\ UNCHANGED runOthers

\* _scrape_category_with_retry returns the item links of the listing page
CategoryOk ==
    /\ pc = "category"
    /\ \E page \in CategoryPages :
         LET category == CATEGORIES[cat_idx]
             links == CategoryLinks(page, category, {}, << >>)
         IN  /\ discovered' = discovered \o links
             /\ IF links = << >>
                THEN CloseCategory(<< >>, total_items, failed_categories,
                                   failed_items)
                ELSE /\ pc' = "item"
                     /\ item_links' = links
                     /\ item_idx' = 1
                     /\ items' = << >>
                     /\ UNCHANGED <<all_data, cat_idx, total_items, result>>
             /\ listing_requested' = listing_requested \cup {category.name}
             /\ listing_ok' = listing_ok \cup {category.name}
    /\ Dispatch(0)
    /\ attempt' = 0
    /\ gets' = 0
    /\ UNCHANGED <<mode, rate_limit, failed_categories, failed_items,
                   failure_gets, item_ok, item_requested>>
    /\ UNCHANGED runOthers

\* _scrape_category_with_retry raises and the wrapper sleeps and retries
CategoryFailRetry ==
    /\ pc = "category"
    /\ WrapperMayRetry(attempt, max_retries)
    /\ Dispatch(WrapperDelay(attempt, backoff_delays))
    /\ attempt' = attempt + 1
    /\ gets' = gets + 1
    /\ listing_requested' = listing_requested \cup {CATEGORIES[cat_idx].name}
    /\ UNCHANGED <<pc, mode, rate_limit, failed_categories, failed_items,
                   cat_idx, item_links, item_idx, items, all_data, total_items,
                   result, failure_gets, listing_ok, discovered, item_ok,
                   item_requested>>
    /\ UNCHANGED runOthers

\* the last attempt raises; scrape_category records the failure, returns []
CategoryFailRecord ==
    /\ pc = "category"
    /\ ~WrapperMayRetry(attempt, max_retries)
    /\ Dispatch(0)
    /\ failed_categories' = CategoryFailed(failed_categories, CATEGORIES[cat_idx])
    /\ CloseCategory(<< >>, total_items, failed_categories', failed_items)
    /\ attempt' = 0
    /\ failure_gets' = gets + 1
    /\ gets' = 0
    /\ listing_requested' = listing_requested \cup {CATEGORIES[cat_idx].name}
    /\ UNCHANGED <<mode, rate_limit, failed_items, listing_ok, discovered,
                   item_ok, item_requested>>
    /\ UNCHANGED runOthers

\* _scrape_item_with_retry returns the Item
ItemOk ==
    /\ pc = "item"
    /\ Dispatch(0)
    /\ LET item_info == item_links[item_idx]
           item == ItemDict(item_info, PageMaterials(item_info.url))
       IN  AfterItem(Append(items, item), CountItem(total_items),
                     failed_categories, failed_items)
    /\ attempt' = 0
    /\ gets' = 0
    /\ item_requested' = item_requested \cup {GlobalIdx}
    /\ item_ok' = item_ok \cup {GlobalIdx}
    /\ UNCHANGED <<mode, rate_limit, failed_categories, failed_items,
                   failure_gets, listing_ok, listing_requested, discovered>>
    /\ UNCHANGED runOthers

\* _scrape_item_with_retry raises and the wrapper sleeps and retries
ItemFailRetry ==
    /\ pc = "item"
    /\ WrapperMayRetry(attempt, max_retries)
    /\ Dispatch(WrapperDelay(attempt, backoff_delays))
    /\ attempt' = attempt + 1
    /\ gets' = gets + 1
    /\ item_requested' = item_requested \cup {GlobalIdx}
    /\ UNCHANGED <<pc, mode, rate_limit, failed_categories, failed_items,
                   cat_idx, item_links, item_idx, items, all_data, total_items,
                   result, failure_gets, listing_ok, listing_requested,
                   discovered, item_ok>>
    /\ UNCHANGED runOthers

\* the last attempt raises; scrape_item_page records the failure and returns
\* the Item with no materials
ItemFailRecord ==
    /\ pc = "item"
    /\ ~WrapperMayRetry(attempt, max_retries)
    /\ Dispatch(0)
    /\ failed_items' = ItemFailed(failed_items, item_links[item_idx])
    /\ AfterItem(Append(items, ItemDict(item_links[item_idx], << >>)),
                 CountItem(total_items), failed_categories, failed_items')
    /\ attempt' = 0
    /\ failure_gets' = gets + 1
    /\ gets' = 0
    /\ item_requested' = item_requested \cup {GlobalIdx}
    /\ UNCHANGED <<mode, rate_limit, failed_categories, listing_ok,
                   listing_requested, discovered, item_ok>>
    /\ UNCHANGED runOthers

\* len(all_items) in the metadata of scrape_loot
LootTotal(all_items) == Len(all_items)

\* the end of scrape_loot: the result dict is built and returned
LootDone(all_items, fc, fi) ==
    /\ pc' = "done"
    /\ items' = all_items
    /\ result' = [categories |-> PutCategory(<< >>, "Loot", all_items),
                  metadata |-> Metadata(LootTotal(all_items), 1, fc, fi)]

\* the loop of scrape_loot over link_candidates moves on
AfterLootItem(all_items, fc, fi) ==
    IF item_idx < Len(item_links)
    THEN /\ pc' = "loot_item"
         /\ item_idx' = item_idx + 1
         /\ items' = all_items
         /\ result' = result
    ELSE /\ LootDone(all_items, fc, fi)
         /\ item_idx' = item_idx

\* scrape_loot up to the request of the Loot page
StartLoot ==
    /\ pc = "start"
    /\ mode' = "loot"
    /\ pc' = "loot_page"
    /\ items' = << >>
    /\ UNCHANGED <<rate_limit, since_last, failed_categories, failed_items,
                   cat_idx, item_links, item_idx, attempt, all_data,
                   total_items, result>>
    /\ UNCHANGED histVars
    /\ UNCHANGED runOthers

\* the Loot page is fetched and its candidate links collected
LootPageOk ==
    /\ pc = "loot_page"
    /\ Dispatch(0)
    /\ \E page \in LootPages :
         LET infos == LootItemInfos(LootCandidates(page))
         IN  /\ discovered' = discovered \o infos
             /\ item_links' = infos
             /\ IF infos = << >>
                THEN /\ LootDone(<< >>, failed_categories, failed_items)
                     /\ item_idx' = 0
                ELSE /\ pc' = "loot_item"
                     /\ item_idx' = 1
                     /\ UNCHANGED <<items, result>>
    /\ gets' = 0
    /\ listing_requested' = listing_requested \cup {"Loot"}
    /\ listing_ok' = listing_ok \cup {"Loot"}
    /\ UNCHANGED <<mode, rate_limit, failed_categories, failed_items, cat_idx,
                   attempt, all_data, total_items, failure_gets, item_ok,
                   item_requested>>
    /\ UNCHANGED runOthers

\* the request of the Loot page raises: logged and re-raised by scrape_loot
LootPageFail ==
    /\ pc = "loot_page"
    /\ Dispatch(0)
    /\ pc' = "raised"
    /\ failure_gets' = gets + 1
    /\ gets' = 0
    /\ listing_requested' = listing_requested \cup {"Loot"}
    /\ UNCHANGED <<mode, rate_limit, failed_categories, failed_items, cat_idx,
                   item_links, item_idx, attempt, items, all_data, total_items,
                   result, listing_ok, discovered, item_ok, item_requested>>
    /\ UNCHANGED runOthers

\* _scrape_loot_item returns the Item, appended to all_items
LootItemOk ==
    /\ pc = "loot_item"
    /\ Dispatch(0)
    /\ LET item_info == item_links[item_idx]
       IN  AfterLootItem(
               Append(items, ItemDict(item_info, LootMaterials(item_info.url))),
               failed_categories, failed_items)
    /\ gets' = 0
    /\ item_requested' = item_requested \cup {GlobalIdx}
    /\ item_ok' = item_ok \cup {GlobalIdx}
    /\ UNCHANGED <<mode, rate_limit, failed_categories, failed_items, cat_idx,
                   item_links, attempt, all_data, total_items, failure_gets,
                   listing_ok, listing_requested, discovered>>
    /\ UNCHANGED runOthers

\* _scrape_loot_item raises: the failure is recorded, no Item is appended
LootItemFail ==
    /\ pc = "loot_item"
    /\ Dispatch(0)
    /\ failed_items' = ItemFailed(failed_items, item_links[item_idx])
    /\ AfterLootItem(items, failed_categories, failed_items')
    /\ failure_gets' = gets + 1
    /\ gets' = 0
    /\ item_requested' = item_requested \cup {GlobalIdx}
    /\ UNCHANGED <<mode, rate_limit, failed_categories, cat_idx, item_links,
                   attempt, all_data, total_items, listing_ok,
                   listing_requested, discovered, item_ok>>
    /\ UNCHANGED runOthers

Next ==
    \/ StartCatalog
    \/ CategoryOk
    \/ CategoryFailRetry
    \/ CategoryFailRecord
    \/ ItemOk
    \/ ItemFailRetry
    \/ ItemFailRecord
    \/ StartLoot
    \/ LootPageOk
    \/ LootPageFail
    \/ LootItemOk
    \/ LootItemFail

Spec == Init /\ [][Next]_vars

(***************************************************************************)
(* Several runs on one WikiScraper: when a run has returned or raised, the *)
(* caller may call scrape_all_categories or scrape_loot again.  The        *)
(* object keeps its attributes; the locals of the call are gone.  The      *)
(* record of requested and answered pages is kept per run.                 *)
(***************************************************************************)
InitRuns ==
    /\ SaveIdle
    /\ RetryIdle
    /\ InitRun
    /\ rate_limit = 1
    /\ MainIdle
    /\ JsonIdle
    /\ LinksIdle
    /\ ExtractIdle
    /\ ParseIdle
    /\ ItemIdle
    /\ run_no = 0

\* the call has ended; the same object is about to be used for another run
AnotherRun ==
    /\ pc \in {"done", "raised"}
    /\ run_no < MaxRuns - 1
    /\ run_no' = run_no + 1
    /\ pc' = "start"
    /\ mode' = "none"
    /\ cat_idx' = 0 /\ item_links' = << >> /\ item_idx' = 0 /\ attempt' = 0
    /\ items' = << >> /\ all_data' = << >> /\ total_items' = 0
    /\ result' = NoCatalog
    /\ gets' = 0 /\ failure_gets' = 0 /\ listing_ok' = {}
    /\ listing_requested' = {} /\ discovered' = << >> /\ item_ok' = {}
    /\ item_requested' = {}
    /\ UNCHANGED <<rate_limit, since_last, failed_categories, failed_items,
                   since_dispatch, last_gap, n_dispatch, last_wait>>
    /\ UNCHANGED <<saveVars, retryVars, mainVars, jsonVars, linkVars,
                   extractVars, parseVars, itemVars>>

NextRuns ==
    \/ StartCatalog
    \/ CategoryOk
    \/ CategoryFailRetry
    \/ CategoryFailRecord
    \/ ItemOk
    \/ ItemFailRetry
    \/ ItemFailRecord
    \/ StartLoot
    \/ LootPageOk
    \/ LootPageFail
    \/ LootItemOk
    \/ LootItemFail
    \/ AnotherRun

SpecRuns == InitRuns /\ [][NextRuns]_vars

(***************************************************************************)
(* main() of main.py with --scrape: WikiScraper() with its defaults,       *)
(* scrape_all_categories(), then save_to_json(data, args.data).  A          *)
(* KeyboardInterrupt can be raised inside any time.sleep or session.get of *)
(* the aggregation; main catches it, logs and calls sys.exit(1).           *)
(***************************************************************************)
\* the blocking calls of a request: the sleep of _rate_limit_wait, the
\* session.get, the sleep of the retry wrapper
InterruptPoints == {"rate_limit_sleep", "request", "backoff_sleep"}

\* whether the `except Exception` clauses between the blocking call and main
\* (the retry wrapper, scrape_category, scrape_item_page) catch exc
ExceptionCatchesAll(exc) == TRUE
ExceptionCatches(exc) == exc # "KeyboardInterrupt"

\* sys.exit(1) in main's except clause: the scraper object is discarded
ProcessExit ==
    /\ pc' = "idle" /\ mode' = "none" /\ rate_limit' = 1 /\ since_last' = 1
    /\ failed_categories' = << >> /\ failed_items' = << >> /\ cat_idx' = 0
    /\ item_links' = << >> /\ item_idx' = 0 /\ attempt' = 0 /\ items' = << >>
    /\ all_data' = << >> /\ total_items' = 0
    /\ result' = [categories |-> << >>, metadata |-> "none"]
    /\ since_dispatch' = 1 /\ last_gap' = 1 /\ n_dispatch' = 0
    /\ last_wait' = 0 /\ gets' = 0 /\ failure_gets' = 0 /\ listing_ok' = {}
    /\ listing_requested' = {} /\ discovered' = << >> /\ item_ok' = {}
    /\ item_requested' = {}

InitMain ==
    /\ SaveIdle
    /\ RetryIdle
    /\ InitRun
    /\ rate_limit = 1
    /\ m_pc = "scrape"
    /\ save_calls = 0
    /\ persisted = << >>
    /\ interrupted_at = "none"
    /\ JsonIdle
    /\ LinksIdle
    /\ ExtractIdle
    /\ ParseIdle
    /\ RunsIdle
    /\ ItemIdle

\* KeyboardInterrupt inside a blocking call of the request in progress.  Not
\* being an Exception it unwinds scrape_all_categories to main, which exits:
\* the scraper and its data are gone with the process.
MainInterrupt ==
    /\ m_pc = "scrape"
    /\ pc \in {"category", "item"}
    /\ \E at \in InterruptPoints :
          /\ at = "rate_limit_sleep" => RateLimitSleep(since_last, rate_limit) > 0
          /\ at = "backoff_sleep" => WrapperMayRetry(attempt, max_retries)
          /\ interrupted_at' = at
    /\ IF ExceptionCatches("KeyboardInterrupt")
       THEN UNCHANGED <<m_pc, progVars, histVars>>
       ELSE m_pc' = "exit_1" /\ ProcessExit
    /\ UNCHANGED <<save_calls, persisted>>
    /\ UNCHANGED mainOthers

\* scrape_all_categories returned and save_to_json(data, args.data) returns
MainSaveReturns ==
    /\ m_pc = "scrape"
    /\ pc = "done"
    /\ save_calls' = save_calls + 1
    /\ persisted' = <<result>>
    /\ m_pc' = "generate"
    /\ UNCHANGED <<interrupted_at, progVars, histVars>>
    /\ UNCHANGED mainOthers

\* save_to_json raises: main logs the error and exits with status 1
MainSaveRaises ==
    /\ m_pc = "scrape"
    /\ pc = "done"
    /\ save_calls' = save_calls + 1
    /\ m_pc' = "exit_1"
    /\ UNCHANGED <<persisted, interrupted_at, progVars, histVars>>
    /\ UNCHANGED mainOthers

NextMain ==
    \/ StartCatalog
    \/ CategoryOk
    \/ CategoryFailRetry
    \/ CategoryFailRecord
    \/ ItemOk
    \/ ItemFailRetry
    \/ ItemFailRecord
    \/ MainInterrupt
    \/ MainSaveReturns
    \/ MainSaveRaises

SpecMain == InitMain /\ [][NextMain]_vars

(***************************************************************************)
(* The catalog file: json.dump(data, f, indent=2, ensure_ascii=False) in   *)
(* save_to_json and json.load in HTMLGenerator.load_data.  Python values   *)
(* carry their type; a float is held in hundredths (round(elapsed, 2)).    *)
(* A JSON document is a tree of objects, arrays, strings and number        *)
(* literals, an integer literal having no fraction part.                   *)
(***************************************************************************)
PyStr(x) == [t |-> "str", v |-> x]
PyInt(n) == [t |-> "int", v |-> n]
PyFloat(h) == [t |-> "float", v |-> h]
PyList(elems) == [t |-> "list", v |-> elems]
\* a dict as its (key, value) pairs in insertion order
PyDict(pairs) == [t |-> "dict", v |-> pairs]

\* asdict(m) of a Material
MaterialDict(m) ==
    PyDict(<< <<"name", PyStr(m.name)>>, <<"quantity", PyInt(m.quantity)>> >>)

\* Item.to_dict() as a Python value
ItemPy(d) ==
    PyDict(<< <<"name", PyStr(d.name)>>, <<"category", PyStr(d.category)>>,
              <<"url", PyStr(d.url)>>,
              <<"materials",
                PyList([i \in 1..Len(d.materials) |->
                           MaterialDict(d.materials[i])])>> >>)

\* all_data['metadata'] with its two clock readings
MetadataPy(scraped_at, total, count, elapsed, fc, fi) ==
    PyDict(<< <<"version", PyStr("1.0")>>, <<"scraped_at", PyStr(scraped_at)>>,
              <<"total_items", PyInt(total)>>,
              <<"categories_count", PyInt(count)>>,
              <<"elapsed_seconds", PyFloat(elapsed)>>,
              <<"failed_categories", PyInt(fc)>>,
              <<"failed_items", PyInt(fi)>> >>)

\* the dict scrape_all_categories and scrape_loot return; cats is the
\* sequence of (category name, item dicts) in insertion order
CatalogPy(cats, metadata) ==
    PyDict(<< <<"categories",
                PyDict([i \in 1..Len(cats) |->
                          <<cats[i][1],
                            PyList([k \in 1..Len(cats[i][2]) |->
                                      ItemPy(cats[i][2][k])])>>])>>,
              <<"metadata", metadata>> >>)

\* the number literal json.dump writes: repr of a float always has a
\* fraction part or an exponent, an int never has
DumpNumber(x) ==
    [j |-> "number",
     v |-> [literal |-> IF x.t = "float" THEN "decimal" ELSE "integer",
            digits |-> x.v]]

\* json.load: an integer literal gives an int, any other a float
LoadNumberAsFloat(x) == PyFloat(x.v.digits)
LoadNumber(x) ==
    IF x.v.literal = "integer" THEN PyInt(x.v.digits) ELSE PyFloat(x.v.digits)

RECURSIVE JsonDump(_)
JsonDump(x) ==
    CASE x.t = "dict" ->
           [j |-> "object",
            v |-> [i \in 1..Len(x.v) |-> <<x.v[i][1], JsonDump(x.v[i][2])>>]]
      [] x.t = "list" ->
           [j |-> "array", v |-> [i \in 1..Len(x.v) |-> JsonDump(x.v[i])]]
      [] x.t = "str" -> [j |-> "string", v |-> x.v]
      [] OTHER -> DumpNumber(x)

RECURSIVE JsonLoad(_)
JsonLoad(x) ==
    CASE x.j = "object" ->
           PyDict([i \in 1..Len(x.v) |-> <<x.v[i][1], JsonLoad(x.v[i][2])>>])
      [] x.j = "array" -> PyList([i \in 1..Len(x.v) |-> JsonLoad(x.v[i])])
      [] x.j = "string" -> PyStr(x.v)
      [] OTHER -> LoadNumber(x)

\* `key in d` and d[key] for a dict
HasKey(d, key) == \E i \in 1..Len(d.v) : d.v[i][1] = key
GetKey(d, key) == d.v[CHOOSE i \in 1..Len(d.v) : d.v[i][1] = key][2]

\* the schema validation of load_data
RequiredFields == {"name", "url", "materials"}

ValidItem(item) ==
    /\ item.t = "dict"
    /\ \A f \in RequiredFields : HasKey(item, f)
    /\ GetKey(item, "materials").t = "list"

ValidCatalog(data) ==
    /\ HasKey(data, "categories")
    /\ GetKey(data, "categories").t = "dict"
    /\ \A i \in 1..Len(GetKey(data, "categories").v) :
          LET its == GetKey(data, "categories").v[i][2]
          IN  /\ its.t = "list"
              /\ \A k \in 1..Len(its.v) : ValidItem(its.v[k])

ValueError == [t |-> "ValueError", v |-> "Invalid JSON"]

LoadData(file) ==
    LET data == JsonLoad(file)
    IN  IF ValidCatalog(data) THEN data ELSE ValueError

\* the catalogs of the round trip: one or two categories of up to
\* MaxJsonItems items each, named by link text or by URL, with or without
\* Materials
JsonItemInfos ==
    {[name |-> "Widget", category |-> "Weapons",
      url |-> "https://arcraiders.wiki/wiki/A"],
     LootItemInfo([href |-> "/wiki/B", text |-> ""])}

JsonItemDicts ==
    {ItemDict(info, LootMaterials(info.url)) : info \in JsonItemInfos}

JsonItemLists == SeqsUpTo(JsonItemDicts, MaxJsonItems)

JsonElapsed == {0, 150, 1200}

JsonCatalogs ==
    {CatalogPy(<< <<"Loot", its>> >>,
               MetadataPy("2025-01-01T00:00:00Z", Len(its), 1, e, 0, 0)) :
        its \in JsonItemLists, e \in JsonElapsed}
    \cup
    {CatalogPy(<< <<"Weapons", its>>, <<"Misc", more>> >>,
               MetadataPy("2025-01-01T00:00:00Z", Len(its) + Len(more), 2, e,
                          fc, 0)) :
        its \in JsonItemLists, more \in SeqsUpTo(JsonItemDicts, 1),
        e \in JsonElapsed, fc \in 0..1}

InitJson ==
    /\ SaveIdle
    /\ RetryIdle
    /\ RunIdle
    /\ MainIdle
    /\ LinksIdle
    /\ ExtractIdle
    /\ ParseIdle
    /\ RunsIdle
    /\ ItemIdle
    /\ j_pc = "dump"
    /\ j_data \in JsonCatalogs
    /\ j_file = "none"
    /\ j_loaded = "none"

\* save_to_json(data, filepath) returns
JsonSave ==
    /\ UNCHANGED jsonOthers
    /\ j_pc = "dump"
    /\ j_file' = JsonDump(j_data)
    /\ j_pc' = "load"
    /\ UNCHANGED <<j_data, j_loaded>>

\* HTMLGenerator(filepath).load_data() returns or raises ValueError
JsonLoadData ==
    /\ UNCHANGED jsonOthers
    /\ j_pc = "load"
    /\ j_loaded' = LoadData(j_file)
    /\ j_pc' = "loaded"
    /\ UNCHANGED <<j_data, j_file>>

NextJson ==
    \/ JsonSave
    \/ JsonLoadData

SpecJson == InitJson /\ [][NextJson]_vars

(***************************************************************************)
(* Link discovery as a function of the listing page: the link scan of      *)
(* _scrape_category_with_retry and the two strategies of scrape_loot.      *)
(* With page.table the anchors are the first links of the first cells of   *)
(* the table's data rows, otherwise all links of the content area.         *)
(***************************************************************************)
LinkHrefs ==
    Hrefs \cup {"/wiki/File:A.png", "/wiki/A#Recycling", "https://example.org/",
                "/wiki/Weapons"}

LinkAnchors == [href : LinkHrefs, text : Texts]

LinkPages == [table : BOOLEAN, anchors : SeqsUpTo(LinkAnchors, MaxLinks)]

InitLinks ==
    /\ SaveIdle
    /\ RetryIdle
    /\ RunIdle
    /\ MainIdle
    /\ JsonIdle
    /\ ExtractIdle
    /\ ParseIdle
    /\ RunsIdle
    /\ ItemIdle
    /\ l_pc = "page"
    /\ l_page \in LinkPages
    /\ l_strategy = "none"
    /\ l_out = << >>

\* the item_links _scrape_category_with_retry returns for the first category
DiscoverCategory ==
    /\ UNCHANGED linkOthers
    /\ l_pc = "page"
    /\ l_strategy' = "catalog"
    /\ l_out' = CategoryLinks(l_page.anchors, CATEGORIES[1], {}, << >>)
    /\ l_pc' = "done"
    /\ UNCHANGED l_page

\* the item infos scrape_loot builds from candidate_links
DiscoverLoot ==
    /\ UNCHANGED linkOthers
    /\ l_pc = "page"
    /\ l_strategy' = "loot"
    /\ l_out' = LootItemInfos(LootCandidates(l_page))
    /\ l_pc' = "done"
    /\ UNCHANGED l_page

NextLinks ==
    \/ DiscoverCategory
    \/ DiscoverLoot

SpecLinks == InitLinks /\ [][NextLinks]_vars

(***************************************************************************)
(* Item pages.  A text is the sequence of its characters.  A document is   *)
(* the sequence of its top-level elements; an element has a tag, its own   *)
(* text, the rows of cells of a table, the items of a list, and the child  *)
(* elements of a container.                                                *)
(***************************************************************************)
IsDigit(c) == c \in {"0", "1", "2", "3", "4", "5", "6", "7", "8", "9"}

DigitValue(c) ==
    CHOOSE d \in 0..9 :
        <<"0", "1", "2", "3", "4", "5", "6", "7", "8", "9">>[d + 1] = c

\* int(digits)
RECURSIVE IntOf(_)
IntOf(digits) ==
    IF digits = << >> THEN 0
    ELSE IntOf(SubSeq(digits, 1, Len(digits) - 1)) * 10
           + DigitValue(digits[Len(digits)])

IsSpace(c) == c = " "

\* str.strip()
Strip(t) ==
    LET kept == {i \in 1..Len(t) : ~IsSpace(t[i])}
    IN  IF kept = {} THEN << >>
        ELSE SubSeq(t, CHOOSE i \in kept : \A k \in kept : i <= k,
                       CHOOSE i \in kept : \A k \in kept : i >= k)

UpperCase ==
    <<"A", "B", "C", "D", "E", "F", "G", "H", "I", "J", "K", "L", "M",
      "N", "O", "P", "Q", "R", "S", "T", "U", "V", "W", "X", "Y", "Z">>
LowerCase ==
    <<"a", "b", "c", "d", "e", "f", "g", "h", "i", "j", "k", "l", "m",
      "n", "o", "p", "q", "r", "s", "t", "u", "v", "w", "x", "y", "z">>

\* str.lower()
LowerChar(c) ==
    IF \E i \in 1..26 : UpperCase[i] = c
    THEN LowerCase[CHOOSE i \in 1..26 : UpperCase[i] = c]
    ELSE c

Lower(t) == [i \in 1..Len(t) |-> LowerChar(t[i])]

\* `kw in text`
Contains(t, kw) ==
    \E i \in 0..(Len(t) - Len(kw)) : SubSeq(t, i + 1, i + Len(kw)) = kw

\* the concatenation of a sequence of sequences
RECURSIVE Flat(_)
Flat(ss) == IF ss = << >> THEN << >> ELSE Head(ss) \o Flat(Tail(ss))

(***************************************************************************)
(* _parse_quantity and _parse_material_text.  re.search takes the leftmost *)
(* match; a lazy (.+?) at the start of a pattern then begins at the first  *)
(* character and ends at the first position from which the rest of the     *)
(* pattern matches.  Positions are 1-based; -1 stands for "no match".      *)
(***************************************************************************)
\* where \s* stops when started at position i
SkipSpaces(t, i) ==
    CHOOSE j \in i..(Len(t) + 1) :
        /\ j > Len(t) \/ ~IsSpace(t[j])
        /\ \A k \in i..(j - 1) : IsSpace(t[k])

\* where \d+ stops when started at position i
DigitsEnd(t, i) ==
    CHOOSE j \in i..(Len(t) + 1) :
        /\ j > Len(t) \/ ~IsDigit(t[j])
        /\ \A k \in i..(j - 1) : IsDigit(t[k])

\* re.search(r'(\d+)', text): the first run of digits, as an int
ParseQuantity(t) ==
    IF \E i \in 1..Len(t) : IsDigit(t[i])
    THEN LET s == CHOOSE i \in 1..Len(t) :
                     IsDigit(t[i]) /\ \A k \in 1..(i - 1) : ~IsDigit(t[k])
         IN  IntOf(SubSeq(t, s, DigitsEnd(t, s) - 1))
    ELSE -1

IsSeparator(c, sep) == IF sep = "x" THEN c \in {"x", "X"} ELSE c = sep

\* the quantity when \s*SEP\s*(\d+) matches at position e, for SEP one of
\* ':', 'x' (case-insensitive), '-'; for '(' the rest is \s*\((\d+)\)
SeparatorTail(t, e, sep) ==
    LET j == SkipSpaces(t, e)
    IN  IF j > Len(t) \/ ~IsSeparator(t[j], sep) THEN -1
        ELSE IF sep = "("
        THEN IF j + 1 > Len(t) \/ ~IsDigit(t[j + 1]) THEN -1
             ELSE LET d == DigitsEnd(t, j + 1)
                  IN  IF d > Len(t) \/ t[d] # ")" THEN -1
                      ELSE IntOf(SubSeq(t, j + 1, d - 1))
        ELSE LET k == SkipSpaces(t, j + 1)
             IN  IF k > Len(t) \/ ~IsDigit(t[k]) THEN -1
                 ELSE IntOf(SubSeq(t, k, DigitsEnd(t, k) - 1))

NoMatch == [matched |-> FALSE, name |-> << >>, quantity |-> 0]

MatchOf(name, quantity) ==
    [matched |-> TRUE, name |-> name, quantity |-> quantity]

\* (.+?)\s*SEP\s*(\d+): groups[0].strip(), int(groups[1])
NameFirst(t, sep) ==
    IF \E e \in 2..Len(t) : SeparatorTail(t, e, sep) >= 0
    THEN LET e == CHOOSE i \in 2..Len(t) :
                     /\ SeparatorTail(t, i, sep) >= 0
                     /\ \A k \in 2..(i - 1) : SeparatorTail(t, k, sep) < 0
         IN  MatchOf(Strip(SubSeq(t, 1, e - 1)), SeparatorTail(t, e, sep))
    ELSE NoMatch

\* (\d+)\s*x\s*(.+) matches with the run of digits that starts at s
QuantityFirstAt(t, s) ==
    /\ IsDigit(t[s])
    /\ s = 1 \/ ~IsDigit(t[s - 1])
    /\ LET j == SkipSpaces(t, DigitsEnd(t, s))
       IN  j < Len(t) /\ IsSeparator(t[j], "x")

\* (\d+)\s*x\s*(.+): groups[1].strip(), int(groups[0])
QuantityFirst(t) ==
    IF \E s \in 1..Len(t) : QuantityFirstAt(t, s)
    THEN LET s == CHOOSE i \in 1..Len(t) :
                     /\ QuantityFirstAt(t, i)
                     /\ \A k \in 1..(i - 1) : ~QuantityFirstAt(t, k)
             d == DigitsEnd(t, s)
             j == SkipSpaces(t, d)
         IN  MatchOf(Strip(SubSeq(t, j + 1, Len(t))), IntOf(SubSeq(t, s, d - 1)))
    ELSE NoMatch

\* the patterns in their order; the first that matches decides
ParseMaterialTextQuantityFirstEarly(t) ==
    IF NameFirst(t, ":").matched THEN NameFirst(t, ":")
    ELSE IF NameFirst(t, "(").matched THEN NameFirst(t, "(")
    ELSE IF QuantityFirst(t).matched THEN QuantityFirst(t)
    ELSE IF NameFirst(t, "x").matched THEN NameFirst(t, "x")
    ELSE NameFirst(t, "-")
ParseMaterialText(t) ==
    IF NameFirst(t, ":").matched THEN NameFirst(t, ":")
    ELSE IF NameFirst(t, "(").matched THEN NameFirst(t, "(")
    ELSE IF NameFirst(t, "x").matched THEN NameFirst(t, "x")
    ELSE IF QuantityFirst(t).matched THEN QuantityFirst(t)
    ELSE NameFirst(t, "-")

\* `if material and quantity is not None: materials.append(Material(...))`
MaterialOf(m) ==
    IF m.matched /\ m.name # << >>
    THEN << [name |-> m.name, quantity |-> m.quantity] >>
    ELSE << >>

(***************************************************************************)
(* Elements and the extractors over them.                                  *)
(***************************************************************************)
Element(tag, text, rows, lis, kids) ==
    [tag |-> tag, text |-> text, rows |-> rows, items |-> lis, kids |-> kids]

HeadingTags == {"h2", "h3", "h4"}

IsHeading(node) == node.tag \in HeadingTags

\* the elements of a document in document order (find_all, find_next); the
\* rows, cells and items of tables and lists are not elements of interest
RECURSIVE Flatten(_)
Flatten(nodes) ==
    IF nodes = << >> THEN << >>
    ELSE <<Head(nodes)>> \o Flatten(Head(nodes).kids) \o Flatten(Tail(nodes))

\* get_text(strip=True): the stripped strings of the element, joined
RECURSIVE GetText(_)
GetText(node) ==
    Strip(node.text)
      \o Flat([r \in 1..Len(node.rows) |->
                 Flat([c \in 1..Len(node.rows[r]) |-> Strip(node.rows[r][c])])])
      \o Flat([i \in 1..Len(node.items) |-> Strip(node.items[i])])
      \o Flat([k \in 1..Len(node.kids) |-> GetText(node.kids[k])])

\* _extract_from_table: rows[1:], the first two cells of each row
TableRowMaterial(cells) ==
    IF Len(cells) >= 2 /\ Strip(cells[1]) # << >>
          /\ ParseQuantity(Strip(cells[2])) >= 0
    THEN << [name |-> Strip(cells[1]),
             quantity |-> ParseQuantity(Strip(cells[2]))] >>
    ELSE << >>

ExtractFromTable(table) ==
    Flat([r \in 1..(Len(table.rows) - 1) |->
            TableRowMaterial(table.rows[r + 1])])

\* _extract_from_list
ExtractFromList(list_element) ==
    Flat([i \in 1..Len(list_element.items) |->
            MaterialOf(ParseMaterialText(Strip(list_element.items[i])))])

\* _extract_from_text: the texts of the model have no newline, so one line
ExtractFromText(element) == MaterialOf(ParseMaterialText(GetText(element)))

\* re.split('[,;/\n]+', cell_text), each part stripped, empty parts dropped
IsDelimiter(c) == c \in {",", ";", "/"}

RECURSIVE SplitParts(_, _)
SplitParts(t, part) ==
    IF t = << >>
    THEN IF Strip(part) = << >> THEN << >> ELSE <<Strip(part)>>
    ELSE IF IsDelimiter(Head(t))
    THEN (IF Strip(part) = << >> THEN << >> ELSE <<Strip(part)>>)
           \o SplitParts(Tail(t), << >>)
    ELSE SplitParts(Tail(t), Append(part, Head(t)))

\* part.replace('×', 'x'); the glyph is the character "times"
NormalizeTimes(part) ==
    [i \in 1..Len(part) |-> IF part[i] = "times" THEN "x" ELSE part[i]]

\* the Materials of one cell of a labeled column
CellMaterials(cell) ==
    LET parts == SplitParts(Strip(cell), << >>)
    IN  Flat([i \in 1..Len(parts) |->
                MaterialOf(ParseMaterialText(NormalizeTimes(parts[i])))])

\* recycling_idx / salvaging_idx, 1-based, 0 for None: the last header cell
\* whose lower-cased text contains needle
HeaderIndex(header, needle) ==
    LET hits == {i \in 1..Len(header) :
                    Contains(Lower(Strip(header[i])), needle)}
    IN  IF hits = {} THEN 0 ELSE CHOOSE i \in hits : \A k \in hits : i >= k

RecyclingIdx(table) == HeaderIndex(table.rows[1], <<"r", "e", "c", "y", "c", "l", "i", "n", "g">>)
SalvagingIdx(table) == HeaderIndex(table.rows[1], <<"s", "a", "l", "v", "a", "g">>)

IsLabeled(table) ==
    table.rows # << >> /\ (RecyclingIdx(table) > 0 \/ SalvagingIdx(table) > 0)

\* want_recycling, want_salvaging
WantRecycling(keywords) ==
    \E k \in 1..Len(keywords) : Contains(keywords[k], <<"r", "e", "c", "y", "c", "l">>)
WantSalvaging(keywords) ==
    \E k \in 1..Len(keywords) : Contains(keywords[k], <<"s", "a", "l", "v", "a", "g">>)

\* the cells of one data row of a labeled table that are parsed
LabeledRowMaterials(table, cells, keywords) ==
    (IF /\ RecyclingIdx(table) > 0 /\ RecyclingIdx(table) <= Len(cells)
        /\ (WantRecycling(keywords) \/ ~WantSalvaging(keywords))
     THEN CellMaterials(cells[RecyclingIdx(table)]) ELSE << >>)
    \o
    (IF /\ SalvagingIdx(table) > 0 /\ SalvagingIdx(table) <= Len(cells)
        /\ (WantSalvaging(keywords) \/ ~WantRecycling(keywords))
     THEN CellMaterials(cells[SalvagingIdx(table)]) ELSE << >>)

LabeledTableMaterials(table, keywords) ==
    Flat([r \in 1..(Len(table.rows) - 1) |->
            LabeledRowMaterials(table, table.rows[r + 1], keywords)])

\* node.find(name): position in Flatten(node.kids) of the first descendant
\* with one of the tags, 0 for None
FindTag(node, tags) ==
    LET below == Flatten(node.kids)
        hits == {i \in 1..Len(below) : below[i].tag \in tags}
    IN  IF hits = {} THEN 0 ELSE CHOOSE i \in hits : \A k \in hits : i <= k

RecyclingKeywords ==
    <<<<"r", "e", "c", "y", "c", "l", "i", "n", "g">>,
      <<"r", "e", "c", "y", "c", "l", "e", "d">>,
      <<"r", "e", "c", "y", "c", "l", "i", "n", "g", " ", "r", "e", "s", "u", "l", "t", "s">>>>
SalvagingKeywords ==
    <<<<"s", "a", "l", "v", "a", "g", "i", "n", "g">>,
      <<"s", "a", "l", "v", "a", "g", "e", "d">>,
      <<"s", "a", "l", "v", "a", "g", "i", "n", "g", " ", "r", "e", "s", "u", "l", "t", "s">>>>

\* the heading _extract_section_materials picks: position in document order
\* of the first h2/h3/h4 whose lower-cased text contains a keyword, 0 for None
SectionHeading(order, keywords) ==
    LET hits == {i \in 1..Len(order) :
                    /\ IsHeading(order[i])
                    /\ \E k \in 1..Len(keywords) :
                          Contains(Lower(GetText(order[i])), keywords[k])}
    IN  IF hits = {} THEN 0 ELSE CHOOSE i \in hits : \A k \in hits : i <= k

\* the loop `node = node.find_next()` of _extract_section_materials over the
\* elements after the heading, with the materials found so far
RECURSIVE SectionWalk(_, _, _)
SectionWalk(nodes, keywords, materials) ==
    IF nodes = << >> THEN materials
    ELSE
      LET node == Head(nodes)
          rest == Tail(nodes)
      IN  IF IsHeading(node) THEN materials
          ELSE IF node.tag = "table"
          THEN IF IsLabeled(node)
               THEN materials \o LabeledTableMaterials(node, keywords)
               ELSE SectionWalk(rest, keywords, materials)
          ELSE IF node.tag \in {"ul", "ol"}
          THEN SectionWalk(rest, keywords, materials \o ExtractFromList(node))
          ELSE IF node.tag \in {"div", "p", "section"}
          THEN IF FindTag(node, {"table"}) > 0
               THEN SectionWalk(rest, keywords,
                      materials \o ExtractFromTable(
                        Flatten(node.kids)[FindTag(node, {"table"})]))
               ELSE IF FindTag(node, {"ul", "ol"}) > 0
               THEN SectionWalk(rest, keywords,
                      materials \o ExtractFromList(
                        Flatten(node.kids)[FindTag(node, {"ul", "ol"})]))
               ELSE SectionWalk(rest, keywords,
                      materials \o ExtractFromText(node))
          ELSE SectionWalk(rest, keywords, materials)

\* _extract_section_materials(soup, keywords)
ExtractSectionMaterials(doc, keywords) ==
    LET order == Flatten(doc)
        heading == SectionHeading(order, keywords)
    IN  IF heading = 0 THEN << >>
        ELSE SectionWalk(SubSeq(order, heading + 1, Len(order)), keywords, << >>)

\* the test of extract_recycling_data on a heading
IsRecyclingHeading(node) ==
    /\ IsHeading(node)
    /\ Contains(Lower(GetText(node)), <<"r", "e", "c", "y", "c", "l", "e", "d">>)
    /\ Contains(Lower(GetText(node)), <<"s", "a", "l", "v", "a", "g", "e", "d">>)

\* position in document order of the heading extract_recycling_data picks
RecyclingHeading(order) ==
    LET hits == {i \in 1..Len(order) : IsRecyclingHeading(order[i])}
    IN  IF hits = {} THEN 0 ELSE CHOOSE i \in hits : \A k \in hits : i <= k

\* the elements find_next_sibling() yields after the first heading of nodes
\* (or of a container below) that extract_recycling_data picks
RECURSIVE HeadingSiblings(_)
HeadingSiblings(nodes) ==
    IF nodes = << >> THEN << >>
    ELSE IF IsRecyclingHeading(Head(nodes)) THEN Tail(nodes)
    ELSE IF RecyclingHeading(Flatten(Head(nodes).kids)) > 0
    THEN HeadingSiblings(Head(nodes).kids)
    ELSE HeadingSiblings(Tail(nodes))

\* the loop `current = current.find_next_sibling()` of extract_recycling_data
RECURSIVE SiblingWalk(_, _)
SiblingWalk(nodes, materials) ==
    IF nodes = << >> THEN materials
    ELSE
      LET current == Head(nodes)
      IN  IF IsHeading(current) THEN materials
          ELSE IF current.tag = "table"
          THEN SiblingWalk(Tail(nodes), materials \o ExtractFromTable(current))
          ELSE IF current.tag \in {"ul", "ol"}
          THEN SiblingWalk(Tail(nodes), materials \o ExtractFromList(current))
          ELSE IF current.tag \in {"div", "p"}
          THEN SiblingWalk(Tail(nodes), materials \o ExtractFromText(current))
          ELSE SiblingWalk(Tail(nodes), materials)

\* extract_recycling_data(html_content)
ExtractRecyclingData(doc) ==
    IF RecyclingHeading(Flatten(doc)) = 0 THEN << >>
    ELSE SiblingWalk(HeadingSiblings(doc), << >>)

(***************************************************************************)
(* The item pages of the model: a first heading followed by up to MaxNodes *)
(* elements, each a heading, a table, a list, a paragraph or a container   *)
(* of up to MaxKids such elements.                                         *)
(***************************************************************************)
HeadingBoth ==
    Element("h2", <<"R", "e", "c", "y", "c", "l", "e", "d", " ", "&", " ", "S", "a", "l", "v", "a", "g", "e", "d", " ", "M", "a", "t", "e", "r", "i", "a", "l", "s">>,
            << >>, << >>, << >>)
HeadingRecycling == Element("h3", <<"R", "e", "c", "y", "c", "l", "i", "n", "g">>, << >>, << >>, << >>)
HeadingSalvaged == Element("h3", <<"S", "a", "l", "v", "a", "g", "e", "d">>, << >>, << >>, << >>)
HeadingStats == Element("h4", <<"S", "t", "a", "t", "s">>, << >>, << >>, << >>)

Headings == {HeadingBoth, HeadingRecycling, HeadingSalvaged, HeadingStats}

\* Material | Qty with the rows Metal | 12 units, Wire | many, (empty) | 3
GenericTable ==
    Element("table", << >>,
            << <<<<"M", "a", "t", "e", "r", "i", "a", "l">>, <<"Q", "t", "y">>>>,
               <<<<"M", "e", "t", "a", "l">>, <<"1", "2", " ", "u", "n", "i", "t", "s">>>>,
               <<<<"W", "i", "r", "e">>, <<"m", "a", "n", "y">>>>,
               <<<< >>, <<"3">>>> >>,
            << >>, << >>)

\* Recycling results | Salvaging results with one data row
LabeledTable ==
    Element("table", << >>,
            << <<<<"R", "e", "c", "y", "c", "l", "i", "n", "g", " ", "r", "e", "s", "u", "l", "t", "s">>,
                 <<"S", "a", "l", "v", "a", "g", "i", "n", "g", " ", "r", "e", "s", "u", "l", "t", "s">>>>,
               <<<<"S", "t", "e", "e", "l", " ", "x", "5", ",", " ", "W", "i", "r", "e", " ", "x", "2">>,
                 <<"S", "c", "r", "a", "p", " ", "x", "1">>>> >>,
            << >>, << >>)

MaterialList ==
    Element("ul", << >>, << >>,
            <<<<"G", "e", "a", "r", " ", "(", "4", ")">>, <<"P", "o", "l", "y", "m", "e", "r", " ", "x", "3">>>>,
            << >>)

Paragraph == Element("p", <<"O", "i", "l", ":", " ", "7">>, << >>, << >>, << >>)

KidNodes == {HeadingStats, MaterialList, GenericTable, LabeledTable}

Containers ==
    {Element(tag, << >>, << >>, << >>, kids) :
        tag \in {"div", "section"}, kids \in SeqsUpTo(KidNodes, MaxKids) \ {<< >>}}

Nodes ==
    Headings \cup {GenericTable, LabeledTable, MaterialList, Paragraph}
      \cup Containers

Docs == {<<h>> \o rest : h \in Headings, rest \in SeqsUpTo(Nodes, MaxNodes)}

InitExtract ==
    /\ SaveIdle
    /\ RetryIdle
    /\ RunIdle
    /\ MainIdle
    /\ JsonIdle
    /\ LinksIdle
    /\ ParseIdle
    /\ RunsIdle
    /\ ItemIdle
    /\ x_pc = "page"
    /\ x_doc \in Docs
    /\ x_extractor = "none"
    /\ x_heading = 0
    /\ x_out = << >>

\* extract_recycling_data on the page (catalog mode)
ExtractCatalog ==
    /\ UNCHANGED extractOthers
    /\ x_pc = "page"
    /\ x_extractor' = "catalog"
    /\ x_heading' = RecyclingHeading(Flatten(x_doc))
    /\ x_out' = ExtractRecyclingData(x_doc)
    /\ x_pc' = "returned"
    /\ UNCHANGED x_doc

\* _extract_section_materials with the recycling keywords (Loot mode)
ExtractRecycling ==
    /\ UNCHANGED extractOthers
    /\ x_pc = "page"
    /\ x_extractor' = "recycling"
    /\ x_heading' = SectionHeading(Flatten(x_doc), RecyclingKeywords)
    /\ x_out' = ExtractSectionMaterials(x_doc, RecyclingKeywords)
    /\ x_pc' = "returned"
    /\ UNCHANGED x_doc

\* _extract_section_materials with the salvaging keywords (Loot mode)
ExtractSalvaging ==
    /\ UNCHANGED extractOthers
    /\ x_pc = "page"
    /\ x_extractor' = "salvaging"
    /\ x_heading' = SectionHeading(Flatten(x_doc), SalvagingKeywords)
    /\ x_out' = ExtractSectionMaterials(x_doc, SalvagingKeywords)
    /\ x_pc' = "returned"
    /\ UNCHANGED x_doc

NextExtract ==
    \/ ExtractCatalog
    \/ ExtractRecycling
    \/ ExtractSalvaging

SpecExtract == InitExtract /\ [][NextExtract]_vars

(***************************************************************************)
(* One text handed to _parse_material_text.                                *)
(***************************************************************************)
\* the characters of the texts: a letter, the separators of the five
\* patterns in both cases of 'x', a digit and a blank
ParseChars == {"a", "x", "X", "2", " ", ":", "(", ")", "-"}

ParseTexts == SeqsUpTo(ParseChars, MaxTextLen)

InitParse ==
    /\ SaveIdle
    /\ RetryIdle
    /\ RunIdle
    /\ MainIdle
    /\ JsonIdle
    /\ LinksIdle
    /\ ExtractIdle
    /\ RunsIdle
    /\ ItemIdle
    /\ p_pc = "text"
    /\ p_text \in ParseTexts
    /\ p_path = "none"
    /\ p_out = << >>

\* material, quantity = self._parse_material_text(text)
ParseText ==
    /\ UNCHANGED parseOthers
    /\ p_pc = "text"
    /\ p_pc' = "parsed"
    /\ p_path' = "material_text"
    /\ p_out' = <<ParseMaterialText(p_text)>>
    /\ UNCHANGED p_text

NextParse == ParseText

SpecParse == InitParse /\ [][NextParse]_vars

(***************************************************************************)
(* One text with or without a multiplication glyph, met as a list item, as *)
(* the text of a container or as a segment of a cell of a labeled table.   *)
(***************************************************************************)
GlyphSides ==
    {<<"a">>, <<"a", " ">>, <<" ", "a">>, <<"2">>, <<"2", " ">>, <<" ", "2">>}

GlyphTexts ==
    {pre \o <<sep>> \o post :
        pre \in GlyphSides, sep \in {"times", "x"}, post \in GlyphSides}

\* the Materials each extraction path makes of one text
PathMaterials(path, text) ==
    CASE path = "list_item" ->
           ExtractFromList(Element("ul", << >>, << >>, <<text>>, << >>))
      [] path = "container_text" ->
           ExtractFromText(Element("p", text, << >>, << >>, << >>))
      [] path = "table_segment" -> CellMaterials(text)

InitGlyph ==
    /\ SaveIdle
    /\ RetryIdle
    /\ RunIdle
    /\ MainIdle
    /\ JsonIdle
    /\ LinksIdle
    /\ ExtractIdle
    /\ RunsIdle
    /\ ItemIdle
    /\ p_pc = "text"
    /\ p_text \in GlyphTexts
    /\ p_path = "none"
    /\ p_out = << >>

\* _extract_from_list on a list with this item
ParseListItem ==
    /\ UNCHANGED parseOthers
    /\ p_pc = "text"
    /\ p_pc' = "parsed"
    /\ p_path' = "list_item"
    /\ p_out' = PathMaterials("list_item", p_text)
    /\ UNCHANGED p_text

\* _extract_from_text on a paragraph with this text
ParseContainerText ==
    /\ UNCHANGED parseOthers
    /\ p_pc = "text"
    /\ p_pc' = "parsed"
    /\ p_path' = "container_text"
    /\ p_out' = PathMaterials("container_text", p_text)
    /\ UNCHANGED p_text

\* the cell parsing of _extract_section_materials on a cell with this text
ParseTableSegment ==
    /\ UNCHANGED parseOthers
    /\ p_pc = "text"
    /\ p_pc' = "parsed"
    /\ p_path' = "table_segment"
    /\ p_out' = PathMaterials("table_segment", p_text)
    /\ UNCHANGED p_text

NextGlyph ==
    \/ ParseListItem
    \/ ParseContainerText
    \/ ParseTableSegment

SpecGlyph == InitGlyph /\ [][NextGlyph]_vars

(***************************************************************************)
(* One Loot item: _scrape_loot_item composes Item.materials from the two   *)
(* section extractions, and buildItems of the generated page splits them   *)
(* again by the provenance prefix.                                         *)
(***************************************************************************)
\* '(Salvage)' and '(Salvage) '
SalvageMark == <<"(", "S", "a", "l", "v", "a", "g", "e", ")">>
SalvagePrefix == SalvageMark \o <<" ">>

\* Material(name=f"(Salvage) {m.name}", quantity=m.quantity)
TagSalvageText(m) == [name |-> SalvagePrefix \o m.name, quantity |-> m.quantity]

\* the materials list of _scrape_loot_item
ComposeMaterials(recycling_materials, salvaging_materials) ==
    recycling_materials
      \o [k \in 1..Len(salvaging_materials) |->
             TagSalvageText(salvaging_materials[k])]

\* m.name && m.name.startsWith('(Salvage)')
StartsWithSalvage(m) ==
    /\ Len(m.name) >= Len(SalvageMark)
    /\ SubSeq(m.name, 1, Len(SalvageMark)) = SalvageMark

StartsWithoutSalvage(m) == ~StartsWithSalvage(m)

\* name.replace(pat, ''): the first occurrence of pat is removed
ReplaceFirst(name, pat) ==
    LET hits == {k \in 0..(Len(name) - Len(pat)) :
                    SubSeq(name, k + 1, k + Len(pat)) = pat}
    IN  IF hits = {} THEN name
        ELSE LET k == CHOOSE h \in hits : \A g \in hits : h <= g
             IN  SubSeq(name, 1, k) \o SubSeq(name, k + Len(pat) + 1, Len(name))

\* m.name.replace('(Salvage) ', '').trim()
Untag(m) ==
    [name |-> Strip(ReplaceFirst(m.name, SalvagePrefix)), quantity |-> m.quantity]

\* the recycling and salvaging arrays buildItems makes of item.materials
BuildItems(materials) ==
    LET tagged == SelectSeq(materials, StartsWithSalvage)
    IN  [recycling |-> SelectSeq(materials, StartsWithoutSalvage),
         salvaging |-> [k \in 1..Len(tagged) |-> Untag(tagged[k])]]

\* a list whose item reads "(Salvage) Gear (4)"
MarkedList ==
    Element("ul", << >>, << >>,
            <<SalvagePrefix \o <<"G", "e", "a", "r", " ", "(", "4", ")">>>>,
            << >>)

\* a section of a Loot item page: a heading and one element under it
LootSections ==
    {<<h, n>> : h \in {HeadingRecycling, HeadingSalvaged, HeadingBoth},
                n \in {MaterialList, MarkedList, LabeledTable, Paragraph}}

\* item pages of one to MaxSections sections
LootDocs == {Flat(ss) : ss \in SeqsUpTo(LootSections, MaxSections) \ {<< >>}}

InitLootItem ==
    /\ SaveIdle
    /\ RetryIdle
    /\ RunIdle
    /\ MainIdle
    /\ JsonIdle
    /\ LinksIdle
    /\ ExtractIdle
    /\ ParseIdle
    /\ RunsIdle
    /\ i_pc = "page"
    /\ i_doc \in LootDocs
    /\ i_recycling = << >>
    /\ i_salvaging = << >>
    /\ i_materials = << >>
    /\ i_shown = NoLists

\* _scrape_loot_item on the fetched page
ScrapeLootItem ==
    /\ UNCHANGED itemOthers
    /\ i_pc = "page"
    /\ i_recycling' = ExtractSectionMaterials(i_doc, RecyclingKeywords)
    /\ i_salvaging' = ExtractSectionMaterials(i_doc, SalvagingKeywords)
    /\ i_materials' = ComposeMaterials(i_recycling', i_salvaging')
    /\ i_pc' = "item"
    /\ UNCHANGED <<i_doc, i_shown>>

\* buildItems of the generated page on the item
ShowItem ==
    /\ UNCHANGED itemOthers
    /\ i_pc = "item"
    /\ i_shown' = BuildItems(i_materials)
    /\ i_pc' = "shown"
    /\ UNCHANGED <<i_doc, i_recycling, i_salvaging, i_materials>>

NextLootItem ==
    \/ ScrapeLootItem
    \/ ShowItem

SpecLootItem == InitLootItem /\ [][NextLootItem]_vars

(***************************************************************************)
(* Claims about save_to_json.                                              *)
(***************************************************************************)

\* C1: for a pre-existing destination file, when save_to_json has failed or
\* the process has crashed before the write completed, the destination still
\* exists and holds its old content.
C1_DestinationSurvivesFailure ==
    (fs_dest0 # NoFile /\ s_pc \in {"raised", "crashed"}) => fs_dest = fs_dest0

\* C2: whenever save_to_json has raised (whatever the failure, a permission
\* error included) and the file system did not refuse the cleanup's own
\* os.remove, no temporary file is left behind.
C2_NoTempFileAfterRaise ==
    (s_pc = "raised" /\ ~cleanup_refused) => fs_tmp = NoFile

(***************************************************************************)
(* Claims about retry_with_backoff.                                        *)
(***************************************************************************)
AllFail(outs) == \A i \in 1..Len(outs) : outs[i] = "fail"

\* what the claim says of the wrapper in every state
RetryCounts ==
    /\ r_pc = "call" => (AllFail(r_outcomes) /\ Len(r_outcomes) <= max_retries)
    /\ r_pc = "raised" =>
          (AllFail(r_outcomes) /\ Len(r_outcomes) = max_retries + 1)
    /\ r_pc = "returned" =>
          /\ Len(r_outcomes) \in 1..(max_retries + 1)
          /\ r_outcomes[Len(r_outcomes)] = "ok"
          /\ AllFail(SubSeq(r_outcomes, 1, Len(r_outcomes) - 1))
          /\ r_result = [kind |-> "value", call |-> Len(r_outcomes)]

IsPrefix(s, t) == Len(s) <= Len(t) /\ SubSeq(t, 1, Len(s)) = s

RECURSIVE SumLens(_, _)
SumLens(cats, keys) ==
    IF keys = {} THEN 0
    ELSE LET k == CHOOSE x \in keys : TRUE
         IN  Len(cats[k]) + SumLens(cats, keys \ {k})

\* positions of the records of fc that name n
RecordsNaming(fc, n) == {k \in 1..Len(fc) : fc[k].name = n}

\* C4: any two consecutive session.get calls of a run, first attempts and
\* retries, listing pages and item pages, in either mode, are dispatched at
\* least rate_limit seconds apart.
C4_RequestSpacing == n_dispatch >= 2 => last_gap >= rate_limit

\* a retry went out after the rate limiter had to sleep before it
C4_Witness ==
    /\ n_dispatch = 2 /\ attempt = 2 /\ last_wait > 0
    /\ rate_limit = 2 /\ last_gap = 2

\* C5: whatever requests fail, a run in catalog mode and in Loot mode returns
\* a catalog; no failure of a listing page or item page aborts the run.
C5_RunNeverAborts == pc # "raised"

\* C6: in scrape_all_categories a category whose listing request failed on
\* every attempt has exactly one FailureRecord {name, url, error}, is a key of
\* the catalog with an empty item list, and every category of the enumeration
\* is still requested.
C6_CategoryExhaustion ==
    mode = "catalog" =>
      /\ \A i \in 1..Len(CATEGORIES) :
            ((i < cat_idx \/ pc = "done") /\ CATEGORIES[i].name \notin listing_ok)
              => /\ Cardinality(RecordsNaming(failed_categories,
                                              CATEGORIES[i].name)) = 1
                 /\ \E k \in 1..Len(failed_categories) :
                       failed_categories[k] =
                         [name |-> CATEGORIES[i].name, url |-> CATEGORIES[i].url,
                          error |-> RequestError]
                 /\ CATEGORIES[i].name \in DOMAIN all_data
                 /\ all_data[CATEGORIES[i].name] = << >>
      /\ \A i \in 1..Len(CATEGORIES) :
            (i < cat_idx \/ pc = "done")
              => CATEGORIES[i].name \in listing_requested
      /\ pc = "done" =>
            /\ result.categories = all_data
            /\ DOMAIN result.categories = CategoryNames

\* the first category was exhausted and the next one yielded an item
C6_Witness ==
    /\ pc = "done" /\ mode = "catalog"
    /\ CATEGORIES[1].name \notin listing_ok
    /\ CATEGORIES[2].name \in listing_ok
    /\ Len(result.categories[CATEGORIES[2].name]) > 0

\* C7: in both modes, when the run has returned, every discovered link was
\* processed, every link whose item extraction failed has an Item with an
\* empty materials list in the catalog, and failed_items holds one
\* FailureRecord per failed link.
C7_FailedItemsRetained ==
    pc = "done" =>
      /\ \A i \in 1..Len(discovered) :
            /\ i \in item_requested
            /\ i \notin item_ok =>
                  \E k \in 1..Len(result.categories[discovered[i].category]) :
                      result.categories[discovered[i].category][k]
                        = ItemDict(discovered[i], << >>)
      /\ Len(failed_items) = Cardinality((1..Len(discovered)) \ item_ok)

\* C8: whenever the failure of a request is recorded or re-raised, that
\* request had been sent max_retries + 1 times: every network call of a run
\* is retried up to the configured count.
C8_EveryRequestRetried == failure_gets \in {0, max_retries + 1}

\* C9: in the catalog a run returns, metadata.total_items is the sum of the
\* lengths of the item lists over all keys of categories.
C9_TotalItems ==
    pc = "done" =>
      result.metadata.total_items
        = SumLens(result.categories, DOMAIN result.categories)

\* a catalog run with an exhausted category and a failed item has returned
C9_Witness ==
    /\ pc = "done" /\ mode = "catalog"
    /\ result.metadata.total_items = 2
    /\ failed_categories # << >> /\ failed_items # << >>

\* C10: in the catalog a run returns, metadata.failed_categories and
\* metadata.failed_items are the lengths of the scraper's failure lists when
\* the catalog is assembled, and while a run is in progress records are only
\* appended to the two lists.
C10_FailureCounts ==
    /\ [](pc = "done" =>
            /\ result.metadata.failed_categories = Len(failed_categories)
            /\ result.metadata.failed_items = Len(failed_items))
    /\ [][pc # "start" =>
            /\ IsPrefix(failed_categories, failed_categories')
            /\ IsPrefix(failed_items, failed_items')]_vars

\* a run has returned with one exhausted category and two failed items
C10_Witness ==
    /\ pc = "done"
    /\ Len(failed_categories) = 1 /\ Len(failed_items) = 2
    /\ result.metadata.failed_categories = 1
    /\ result.metadata.failed_items = 2

(***************************************************************************)
(* Claims about the wrapper's sleeps and about what it raises.             *)
(***************************************************************************)
NumFails(outs) == Cardinality({i \in 1..Len(outs) : outs[i] = "fail"})

\* the delays the claim expects after the first k failures
ExpectedSleeps(k) ==
    [i \in 1..k |-> backoff_delays[Min(i - 1, Len(backoff_delays) - 1) + 1]]

\* C11: with a non-empty delay list, after the failure of attempt i (0-based)
\* with i < max_retries the wrapper sleeps exactly
\* backoff_delays[min(i, len(backoff_delays)-1)] before the next attempt; it
\* does not sleep after the final failing attempt nor after a success.
C11_SleepSchedule ==
    WrapperHasDelay(backoff_delays) =>
        r_slept = ExpectedSleeps(Min(NumFails(r_outcomes), max_retries))

\* three retries over a two-entry list of different delays, all failed: the
\* third sleep is past the end of the list and the last failure has no sleep
C11_Witness ==
    /\ r_pc = "raised" /\ max_retries = 3 /\ Len(r_outcomes) = 4
    /\ Len(backoff_delays) = 2 /\ backoff_delays[1] # backoff_delays[2]
    /\ Len(r_slept) = 3

\* C12: when every attempt fails, the failure that reaches the caller is the
\* failure of the last attempt with its information preserved, and it is
\* tagged as retry-exhausted, so that it differs from the same failure
\* raised by an operation that was never retried.
C12_ExhaustionTagged ==
    (r_pc = "raised" /\ NumFails(r_outcomes) = max_retries + 1) =>
        /\ r_result.call = Len(r_outcomes)
        /\ r_result # FuncFailure(Len(r_outcomes))

(***************************************************************************)
(* Claims about main.                                                      *)
(***************************************************************************)
\* C13: the catalog file is written only after the aggregation over all
\* categories and items has completed, and at most once per run; if the run
\* is interrupted during a request or sleep of the aggregation, save_to_json
\* is never invoked and no partial catalog is persisted.
C13_SaveAfterAggregation ==
    /\ save_calls <= 1
    /\ save_calls = 1 => pc = "done"
    /\ persisted # << >> =>
          /\ persisted = <<result>>
          /\ DOMAIN result.categories = CategoryNames
          /\ result.metadata.categories_count = Len(CATEGORIES)
    /\ interrupted_at # "none" => (save_calls = 0 /\ persisted = << >>)

\* main was interrupted in a backoff sleep and exited without saving
C13_Witness ==
    /\ m_pc = "exit_1" /\ interrupted_at = "backoff_sleep" /\ save_calls = 0

(***************************************************************************)
(* Claims about the catalog file.                                          *)
(***************************************************************************)
\* C14: for every catalog the scraper can produce, writing it with
\* save_to_json and reading the file back with load_data yields categories
\* and metadata equal field for field to the written ones, the numeric
\* fields of the metadata (and their types) unchanged.
C14_RoundTrip ==
    j_pc = "loaded" =>
        /\ j_loaded # ValueError
        /\ GetKey(j_loaded, "categories") = GetKey(j_data, "categories")
        /\ GetKey(j_loaded, "metadata") = GetKey(j_data, "metadata")

\* a two-category catalog with Materials, a URL-named item and an elapsed
\* time of 1.5 s was written and read back
C14_Witness ==
    /\ j_pc = "loaded"
    /\ Len(GetKey(j_data, "categories").v) = 2
    /\ GetKey(GetKey(j_data, "metadata"), "elapsed_seconds") = PyFloat(150)
    /\ GetKey(GetKey(j_data, "metadata"), "total_items") = PyInt(3)

(***************************************************************************)
(* Claims about link discovery.                                            *)
(***************************************************************************)
\* position on the page of the first hyperlink that resolves to url
FirstOccurrence(url) ==
    CHOOSE i \in 1..Len(l_page.anchors) :
        /\ FullUrl(l_page.anchors[i].href) = url
        /\ \A k \in 1..(i - 1) : FullUrl(l_page.anchors[k].href) # url

\* C15: for both link-discovery strategies (table-based and fallback link
\* scan) the output never contains two candidates with the same resolved
\* absolute URL, and the candidates appear in the document order of the
\* first occurrence of each URL.
C15_NoDuplicateCandidates ==
    l_pc = "done" =>
        \A i, k \in 1..Len(l_out) :
            i < k =>
                /\ l_out[i].url # l_out[k].url
                /\ FirstOccurrence(l_out[i].url) < FirstOccurrence(l_out[k].url)

\* C16: for both link-discovery strategies, in catalog mode and in Loot
\* mode, a hyperlink whose visible text is empty after trimming never becomes
\* a candidate: every candidate comes from a hyperlink to its URL that has a
\* visible text, which is the candidate's name.
C16_NoEmptyTextCandidate ==
    l_pc = "done" =>
        \A k \in 1..Len(l_out) :
            \E i \in 1..Len(l_page.anchors) :
                /\ l_page.anchors[i].text # ""
                /\ FullUrl(l_page.anchors[i].href) = l_out[k].url
                /\ l_page.anchors[i].text = l_out[k].name

(***************************************************************************)
(* Claims about the section of an item page and its Materials.             *)
(***************************************************************************)
Order == Flatten(x_doc)

Range(s) == {s[i] : i \in 1..Len(s)}

\* the keyword set of the extractor that ran
KeywordsOf(extractor) ==
    CASE extractor = "recycling" -> RecyclingKeywords
      [] extractor = "salvaging" -> SalvagingKeywords
      [] OTHER -> <<<<"r", "e", "c", "y", "c", "l", "e", "d">>,
                    <<"s", "a", "l", "v", "a", "g", "e", "d">>>>

\* position of the first heading of level 2-4 in document order whose
\* lower-cased text contains one of the keywords, 0 when there is none
FirstMatchingHeading(keywords) ==
    LET hits == {i \in 1..Len(Order) :
                    /\ Order[i].tag \in {"h2", "h3", "h4"}
                    /\ \E k \in 1..Len(keywords) :
                          Contains(Lower(Order[i].text), keywords[k])}
    IN  IF hits = {} THEN 0 ELSE CHOOSE i \in hits : \A k \in hits : i <= k

\* position of the next heading of level 2-4 after position h, or the end
SectionEnd(h) ==
    LET later == {i \in (h + 1)..Len(Order) : Order[i].tag \in {"h2", "h3", "h4"}}
    IN  IF later = {} THEN Len(Order) + 1
        ELSE CHOOSE i \in later : \A k \in later : i <= k

\* the positions between the located heading and the next heading
InSection == {i \in 1..Len(Order) :
                 x_heading > 0 /\ x_heading < i /\ i < SectionEnd(x_heading)}

\* the element at position i lies inside a container
Nested(i) ==
    \E c \in 1..Len(Order) :
        /\ Order[c].kids # << >>
        /\ c < i /\ i <= c + Len(Flatten(Order[c].kids))

\* the Materials an element of the section can give, by any strategy
SourceMaterials(node) ==
    IF node.tag = "table"
    THEN Range(ExtractFromTable(node))
           \cup Range(LabeledTableMaterials(node, KeywordsOf(x_extractor)))
    ELSE IF node.tag \in {"ul", "ol"} THEN Range(ExtractFromList(node))
    ELSE IF node.tag = "p" THEN Range(ExtractFromText(node))
    ELSE {}

\* C17: the Materials extracted for a section come only from content that
\* lies, in document order, between the located heading and the next heading
\* of level 2-4; content nested inside containers within that range is
\* reached; nothing located after the next heading contributes a Material;
\* for the catalog-mode extractor and for the Loot-mode extractor.
C17_SectionRange ==
    x_pc = "returned" =>
        /\ \A k \in 1..Len(x_out) :
              \E i \in InSection : x_out[k] \in SourceMaterials(Order[i])
        /\ \A i \in InSection :
              (Nested(i) /\ Order[i].tag \in {"ul", "ol"}) =>
                  Range(ExtractFromList(Order[i])) \subseteq Range(x_out)

\* C18: the section used for a keyword set is the first heading of level
\* 2-4 in document order whose lower-cased text contains any one of the
\* keywords; when no heading matches, the extractor returns an empty
\* materials list (and raises nothing, so that no FailureRecord is made).
C18_FirstMatchingHeading ==
    x_pc # "page" =>
        /\ x_heading = FirstMatchingHeading(KeywordsOf(x_extractor))
        /\ FirstMatchingHeading(KeywordsOf(x_extractor)) = 0 =>
              (x_out = << >> /\ x_pc = "returned")

\* the Material of one row of a generic two-column table, if any
GenericRow(cells) ==
    IF /\ Len(cells) >= 2
       /\ Strip(cells[1]) # << >>
       /\ \E i \in 1..Len(cells[2]) : IsDigit(cells[2][i])
    THEN << [name |-> Strip(cells[1]), quantity |-> ParseQuantity(cells[2])] >>
    ELSE << >>

GenericExpected(table) ==
    Flat([r \in 1..(Len(table.rows) - 1) |-> GenericRow(table.rows[r + 1])])

\* the header row has a cell containing 'recycling' or a salvage substring
HasLabeledHeader(table) ==
    \E c \in 1..Len(table.rows[1]) :
        \/ Contains(Lower(table.rows[1][c]), <<"r", "e", "c", "y", "c", "l", "i", "n", "g">>)
        \/ Contains(Lower(table.rows[1][c]), <<"s", "a", "l", "v", "a", "g">>)

\* C19: a table inside a located section whose header row has no cell
\* containing 'recycling' and none containing a salvage substring is parsed
\* with the generic two-column form: every non-header row with a non-empty
\* first cell and an integer in its second cell yields the Material (first
\* cell, first integer of the second cell), the other rows yield none; in
\* the Loot-mode section walk as well as in the catalog-mode extractor.
C19_GenericTable ==
    x_pc = "returned" =>
        \A i \in InSection :
            (Order[i].tag = "table" /\ ~HasLabeledHeader(Order[i])) =>
                /\ Range(GenericExpected(Order[i])) \subseteq Range(x_out)
                /\ InSection = {i} => x_out = GenericExpected(Order[i])

\* the Materials of the cells of the column whose header contains needle
ColumnExpected(table, needle) ==
    LET cols == {c \in 1..Len(table.rows[1]) :
                    Contains(Lower(table.rows[1][c]), needle)}
    IN  IF cols = {} THEN << >>
        ELSE LET col == CHOOSE c \in cols : \A k \in cols : c >= k
             IN  Flat([r \in 1..(Len(table.rows) - 1) |->
                         IF col <= Len(table.rows[r + 1])
                         THEN CellMaterials(table.rows[r + 1][col])
                         ELSE << >>])

\* the section holds one labeled table and nothing else, the table standing
\* directly in the section or alone inside one container
OnlyLabeledTable(i) ==
    /\ Order[i].tag = "table"
    /\ HasLabeledHeader(Order[i])
    /\ \/ InSection = {i}
       \/ InSection = {i - 1, i} /\ Order[i - 1].kids = <<Order[i]>>

\* C20: for a table with labeled recycling and/or salvaging header columns, a
\* call made with recycling keywords returns Materials parsed only from the
\* recycling column's cells and a call made with salvaging keywords only
\* from the salvaging column's cells, one per parsable segment, in row order
\* then segment order; a requested column that is absent yields none.
C20_LabeledColumns ==
    (x_pc = "returned" /\ x_extractor \in {"recycling", "salvaging"}) =>
        \A i \in InSection :
            OnlyLabeledTable(i) =>
                x_out = ColumnExpected(Order[i],
                           IF x_extractor = "recycling"
                           THEN <<"r", "e", "c", "y", "c", "l", "i", "n", "g">>
                           ELSE <<"s", "a", "l", "v", "a", "g">>)

(***************************************************************************)
(* Claims about _parse_material_text.                                      *)
(***************************************************************************)

\* the ways text t matches NAME sep QTY: <<j, a, b>> with the separator at
\* j, after at least one character of name, then blanks, then the digits
\* t[a..b], which no digit follows; for '(' the digits follow at once and a
\* ')' closes them
NameFirstSplits(t, sep) ==
    {w \in (2..Len(t)) \X (3..Len(t)) \X (3..Len(t)) :
        /\ IsSeparator(t[w[1]], sep)
        /\ w[1] < w[2] /\ w[2] <= w[3]
        /\ \A k \in (w[1] + 1)..(w[2] - 1) : t[k] = " "
        /\ \A k \in w[2]..w[3] : IsDigit(t[k])
        /\ w[3] = Len(t) \/ ~IsDigit(t[w[3] + 1])
        /\ sep = "(" => (w[2] = w[1] + 1 /\ w[3] < Len(t) /\ t[w[3] + 1] = ")")}

\* the ways text t matches QTY x NAME: <<s, d, j>> with the digits
\* t[s..d-1], blanks, the 'x' at j and at least one character after it
QuantityFirstSplits(t) ==
    {w \in (1..Len(t)) \X (2..Len(t)) \X (2..Len(t)) :
        /\ w[1] < w[2] /\ w[2] <= w[3] /\ w[3] < Len(t)
        /\ \A k \in w[1]..(w[2] - 1) : IsDigit(t[k])
        /\ \A k \in w[2]..(w[3] - 1) : t[k] = " "
        /\ t[w[3]] \in {"x", "X"}}

Leftmost(splits) == CHOOSE w \in splits : \A v \in splits : w[1] <= v[1]

\* the numbers of the patterns that match t, and what pattern n makes of t
PatternSeparator(n) == <<":", "(", "x", "x", "-">>[n]

PatternsMatching(t) ==
    {n \in 1..5 : IF n = 4 THEN QuantityFirstSplits(t) # {}
                  ELSE NameFirstSplits(t, PatternSeparator(n)) # {}}

Interpretation(t, n) ==
    IF n = 4
    THEN LET w == Leftmost(QuantityFirstSplits(t))
         IN  [name |-> Strip(SubSeq(t, w[3] + 1, Len(t))),
              quantity |-> IntOf(SubSeq(t, w[1], w[2] - 1))]
    ELSE LET w == Leftmost(NameFirstSplits(t, PatternSeparator(n)))
         IN  [name |-> Strip(SubSeq(t, 1, w[1] - 1)),
              quantity |-> IntOf(SubSeq(t, w[2], w[3]))]

LowestPattern(t) ==
    CHOOSE n \in PatternsMatching(t) : \A m \in PatternsMatching(t) : n <= m

\* C21: _parse_material_text returns what the lowest-numbered of the five
\* patterns NAME: QTY, NAME (QTY), NAME x QTY, QTY x NAME, NAME - QTY that
\* matches the text makes of it, as (trimmed name, integer quantity) also for
\* the fourth pattern, whose groups come in the other order; a text that no
\* pattern matches gives no Material.
C21_FirstPatternWins ==
    p_pc = "parsed" =>
      LET out == p_out[1]
      IN  IF PatternsMatching(p_text) = {}
          THEN ~out.matched /\ MaterialOf(out) = << >>
          ELSE /\ out.matched
               /\ [name |-> out.name, quantity |-> out.quantity]
                    = Interpretation(p_text, LowestPattern(p_text))
               /\ out.name = Strip(out.name)
               /\ out.quantity \in Nat

\* a text that both NAME x QTY and QTY x NAME match was parsed as NAME x QTY
C21_Witness ==
    /\ p_pc = "parsed"
    /\ p_text = <<"a", "2", "x", "2">>
    /\ PatternsMatching(p_text) = {3, 4}
    /\ p_out[1] = MatchOf(<<"a", "2">>, 2)

\* C22: in every extraction path (list item, container text, segment of a
\* labeled-table cell) a text written with the multiplication glyph gives
\* the same Materials as the same text written with an ASCII 'x'.
C22_GlyphNormalized ==
    p_path \in {"list_item", "container_text", "table_segment"} =>
        p_out = PathMaterials(p_path, NormalizeTimes(p_text))

(***************************************************************************)
(* Claims about the Materials of a Loot item.                              *)
(***************************************************************************)

\* C23: Item.materials of a Loot item is the recycling Materials in
\* extraction order followed by the salvaging Materials in extraction order
\* with '(Salvage) ' before each name, and the untagging of the display
\* layer gives back every Material's name under its own source.
C23_TaggingUndoable ==
    /\ i_pc \in {"item", "shown"} =>
          /\ Len(i_materials) = Len(i_recycling) + Len(i_salvaging)
          /\ SubSeq(i_materials, 1, Len(i_recycling)) = i_recycling
          /\ \A k \in 1..Len(i_salvaging) :
                /\ i_materials[Len(i_recycling) + k].name
                     = SalvagePrefix \o i_salvaging[k].name
                /\ i_materials[Len(i_recycling) + k].quantity
                     = i_salvaging[k].quantity
    /\ i_pc = "shown" =>
          /\ i_shown.recycling = i_recycling
          /\ i_shown.salvaging = i_salvaging

\* how often Material m stands in the sequence ms
Count(ms, m) == Cardinality({k \in 1..Len(ms) : ms[k] = m})

\* the Materials of the lists of the located section, list after list
SectionListMaterials ==
    Flat([k \in 1..(SectionEnd(x_heading) - x_heading - 1) |->
             IF Order[x_heading + k].tag \in {"ul", "ol"}
             THEN ExtractFromList(Order[x_heading + k])
             ELSE << >>])

\* C24: in the Loot-mode section walk every list of the located section,
\* nested inside a div, p or section container or not, contributes each of
\* its Materials to the result exactly once.
C24_ExtractedOnce ==
    (x_pc = "returned" /\ x_extractor \in {"recycling", "salvaging"}
       /\ x_heading > 0) =>
        \A m \in Range(SectionListMaterials) :
            Count(x_out, m) = Count(SectionListMaterials, m)

(***************************************************************************)
(* Claims about several runs on one scraper.                               *)
(***************************************************************************)

\* C25: whatever runs were made before on the same WikiScraper, the
\* failed_categories and failed_items counts in the metadata a run returns
\* are the numbers of listings and of items that failed during that run.
C25_CountsOfThisRun ==
    pc = "done" =>
      /\ result.metadata.failed_categories
           = Cardinality(listing_requested \ listing_ok)
      /\ result.metadata.failed_items
           = Cardinality((1..Len(discovered)) \ item_ok)

(***************************************************************************)
(* Claims about the errors of save_to_json.                                *)
(***************************************************************************)

\* C26: when save_to_json has raised before temp_filepath was assigned (the
\* directory could not be created), the error that reached the caller is
\* the error of the file system, not one raised by the cleanup handler.
C26_OriginalErrorReachesCaller ==
    (s_pc = "raised" /\ ~temp_bound) => s_error \in FsErrors

(***************************************************************************)
(* Claims about the source of the Materials of a Loot item.                *)
(***************************************************************************)

\* every Material occurrence written on the page, element after element: the
\* items of a list, the text of a paragraph, the segments of the cells of
\* the data rows of a table
NodeOccurrences(node) ==
    IF node.tag \in {"ul", "ol"} THEN ExtractFromList(node)
    ELSE IF node.tag = "p" THEN ExtractFromText(node)
    ELSE IF node.tag = "table"
    THEN Flat([r \in 1..(Len(node.rows) - 1) |->
                 Flat([c \in 1..Len(node.rows[r + 1]) |->
                          CellMaterials(node.rows[r + 1][c])])])
    ELSE << >>

PageOccurrences ==
    Flat([k \in 1..Len(i_doc) |-> NodeOccurrences(i_doc[k])])

\* C27: in Loot mode every Material occurrence of the item page is given to
\* one source only: a Material is returned as recycling and as salvaging
\* together no more often than it is written on the page, also when one
\* heading contains a recycling keyword and a salvaging keyword.
C27_OneSourcePerOccurrence ==
    i_pc \in {"item", "shown"} =>
        \A m \in Range(i_recycling) \cup Range(i_salvaging) :
            Count(i_recycling, m) + Count(i_salvaging, m)
              <= Count(PageOccurrences, m)

(***************************************************************************)
(* Claims about the link scan of a category page.                          *)
(***************************************************************************)

\* the hyperlink is none of those the scan of a category page skips
NotExcluded(link) ==
    /\ StartsWithWiki(link.href) /\ ~HasColon(link.href) /\ ~HasHash(link.href)
    /\ link.href # CategoryPath(CATEGORIES[1].url)

\* C28: in the link scan of a category page, every URL to which some
\* hyperlink that is not excluded and has a visible text points stands in
\* the output exactly once, also when an earlier hyperlink to the same URL
\* has no visible text.
C28_NamedLinkKept ==
    (l_pc = "done" /\ l_strategy = "catalog") =>
        \A i \in 1..Len(l_page.anchors) :
            (NotExcluded(l_page.anchors[i]) /\ l_page.anchors[i].text # "") =>
                Cardinality({k \in 1..Len(l_out) :
                    l_out[k].url = FullUrl(l_page.anchors[i].href)}) = 1

====
